---- MODULE Spec2Model ----
(***************************************************************************)
(* MamaVillage: the agent-cycle scheduler (run.py, run_intelligent.py,     *)
(* run_new.py + core/workflow.py, run_autonomous.py +                      *)
(* core/autonomous_workflow.py), the agents' long-term memory list         *)
(* (core/agent.py, core/intelligent_agent.py) and the SQLite store         *)
(* (memory/database.py).                                                   *)
(*                                                                         *)
(* One behaviour of the model is one process: it picks an entry point      *)
(* (driver), a set of loaded agent profiles and an oracle regime in Init,  *)
(* and then runs that entry point.  The generative oracle, random.* and    *)
(* datetime.now() are nondeterministic choices.                            *)
(***************************************************************************)
EXTENDS Integers, Sequences, FiniteSets, TLC

(***************************************************************************)
(* Bounds of the exploration.                                              *)
(***************************************************************************)
MaxAgents == 2          \* at most this many agent profiles are loaded
MaxTicksArg == 2        \* max_ticks is drawn from 1..MaxTicksArg
MaxConvArg == 1         \* max_conversations is drawn from None, 0..MaxConvArg
MaxPlanActions == 1     \* an oracle plan holds 0..MaxPlanActions actions
MaxCycles == 2          \* graph cycles explored in one run
MaxExtraAdds == 1       \* add_memory calls explored on a pre-filled memory list
MaxStoreRows == 2       \* memory rows of the store explored in a run
MaxMentions == 2        \* names and ids in one text of the selection oracle
MaxRunMemories == 1     \* a run adds memories while the agents hold fewer than this
MaxQueryMemories == 2   \* memories in a list that get_relevant_memories is called on
MaxDbWrites == 2        \* memory, conversation and plan writes made on a store object

(***************************************************************************)
(* Program constants.                                                      *)
(***************************************************************************)
MemoryHighWater == 100  \* len(long_term_memories) > 100 triggers eviction
MemoryKeep == 80        \* long_term_memories[:80]
MinImportance == 1      \* Field(ge=1, ...)
MaxImportance == 10     \* Field(..., le=10)
GraphTickCap == 100     \* tick_count >= 100 ends the graph loop
MaxActivePerTick == 3   \* randint(1, 3) / active_profiles[:3]
ManagerWindow == 100    \* AgentMemoryManager: self.get_memories(limit=100)

VARIABLES
    driver,              \* entry point of this process
    registered,          \* agent ids in load order (self.agents / profiles keys)
    oracle_down,         \* TRUE: every oracle call of this process fails
    pc,                  \* position of the driver loop
    max_ticks,           \* argument of the run
    max_conversations,   \* <<>> is None, <<k>> is k
    tick,                \* loop index of "for tick in range(max_ticks)"
    tick_count,          \* the driver's tick_count
    conversation_count,  \* the driver's conversation_count
    active,              \* agents still to run in this tick, in selection order
    current_agent_id,    \* agent of the running cycle, "none" when unset
    phase,               \* last phase entered by the running cycle
    cycle_status,        \* "none", "running", "done", "aborted"
    wf,                  \* workflow_state.simulation_state of the graph drivers
    agents_table,        \* ids of the rows of the store's agents table
    conversations_table, \* number of rows of the store's conversations table
    memories_table,      \* the store's memories table: row count, importance of the last row
    plans_table,         \* number of rows of the store's daily_plans table
    long_term_memories,  \* agent.long_term_memories, per agent id
    clock,               \* datetime.now(), as a counter of created records
    raised,              \* an exception escaped the tick to the run loop
    rel,                 \* a memory list and the get_relevant_memories calls made on it
    db,                  \* a store object used directly: its tables and its last call
    obs,                 \* an observe phase reading the hour: variant, hour, time context
    win,                 \* the recent_conversations windows of two agents of a graph driver
    planning,            \* the Planning phase used alone: current plan, rows written, last oracle outcomes
    activity,            \* agent.state.last_activity of two agents, and the clock
    graph_loop,          \* the autonomous graph's loop used alone: its counters and last decision
    memory_system,       \* a MemorySystemManager used alone: its store's tables and the day
    hist                 \* history of the current run (not program state)

runVars == <<pc, max_ticks, max_conversations, tick, tick_count, conversation_count>>
cycleVars == <<active, current_agent_id, phase, cycle_status>>
storeVars == <<agents_table, conversations_table, memories_table, plans_table>>
agentVars == <<long_term_memories, clock>>
envVars == <<driver, registered, oracle_down>>
libVars == <<rel, db, obs, win, planning, activity, graph_loop, memory_system>>
vars == <<envVars, libVars, runVars, cycleVars, wf, storeVars, agentVars, raised, hist>>

(***************************************************************************)
(* Agent profiles (agents/*.json): the ids, in load order, and the part of *)
(* each profile the scheduler branches on.                                 *)
(***************************************************************************)
AgentOrder == <<"xiaoli", "conversation_nainai", "zhangjie", "wangfang">>
AllAgents == {AgentOrder[i] : i \in 1..MaxAgents}
HasChildren(a) == a \in {"xiaoli", "zhangjie"}
\* "conversation" in agent_id, the substring test of run.py:254
IdContainsConversation(a) == a = "conversation_nainai"

None == <<>>
Some(k) == <<k>>
Range(s) == {s[i] : i \in 1..Len(s)}

\* random.sample(population, k): the ordered samples without replacement
Samples(S, k) == {s \in [1..k -> S] : \A i, j \in 1..k : i # j => s[i] # s[j]}
Min(a, b) == IF a < b THEN a ELSE b

(***************************************************************************)
(* The oracle: a call fails, returns empty text, or returns text.          *)
(***************************************************************************)
OracleOutcomes == IF oracle_down THEN {"fail"} ELSE {"fail", "empty", "text"}

(***************************************************************************)
(* memory/database.py                                                      *)
(***************************************************************************)
\* MemoryDatabase.add_memory: INSERT of the importance as given
db_add_memory(table, importance) ==
    [rows |-> table.rows + 1, last |-> <<importance>>]

RECURSIVE db_add_memories(_, _)
db_add_memories(table, imps) ==
    IF imps = <<>> THEN table
    ELSE db_add_memories(db_add_memory(table, Head(imps)), Tail(imps))

\* MemoryDatabase.add_conversation: one more row
db_add_conversation(table) == table + 1

(***************************************************************************)
(* History of the run: what the properties below count.                    *)
(***************************************************************************)
HistInit == [appended |-> 0,      \* conversation-creation calls since the reset
             runs |-> 1,          \* runs started on the simulation object so far
             cycles |-> 0,        \* agent cycles started by the current _run_tick
             graph_cycles |-> 0,  \* graph cycles started in the run
             phases |-> <<>>,     \* phases executed by the current cycle, in order
             agents0 |-> {},      \* agents table when the run started
             last |-> "none",     \* what the last step did
             sel |-> "none",      \* what the last selection oracle call returned
             req |-> 0,           \* importance asked of the last add_memory call
             adds |-> 0,          \* add_memory calls made directly
             pre |-> <<>>]        \* the list, new memory included, before the last eviction


(***************************************************************************)
(* State after construction (MamaVillageSimulation.__init__ and its        *)
(* counterparts): the profiles are loaded and registered in the store, the *)
(* counters are 0 and no cap is set.                                       *)
(***************************************************************************)
Drivers == {"run", "intelligent", "workflow", "autonomous", "agent", "store", "memory",
            "database", "observe", "window", "planning", "activity", "continuation", "cleanup"}

\* a memory list or a store object used on its own, as test_database and
\* test_memory_system use it: no simulation is constructed, no profile is
\* loaded and no oracle is called
LibraryDrivers == {"memory", "database", "observe", "window", "planning", "activity", "cleanup"}

\* a store object before its constructor has run
DbInit == [impl |-> "none", path |-> "none", open |-> FALSE,
           agents |-> <<>>, memories |-> <<>>, conversations |-> <<>>, plans |-> <<>>,
           now |-> 0, writes |-> 0, saved |-> {}, last |-> None]

\* the windows before a graph driver is constructed
WinInit == [variant |-> "none", state |-> <<>>, sim |-> <<>>, n |-> 0, base |-> 0,
            agent |-> "none"]

\* the Planning phase before any cycle has run
PlanningInit == [variant |-> "none", current_plan |-> None, rows |-> 0, memories |-> 0,
                 n |-> 0, last |-> None]

\* the agents' activity before any cycle: AgentState's last_activity is the
\* time of construction
ActInit == [now |-> 0, cycle_start |-> 0, agent |-> "none", last |-> "none",
            last_activity |-> <<>>]

\* the graph loop before an invocation
LoopInit == [entered |-> FALSE, tick_count |-> 0, conversation_count |-> 0,
             max_conversations |-> None, cycles |-> 0, decision |-> "none"]

MemSysInit == [open |-> FALSE, path |-> "none", agents |-> {}, memories |-> <<>>,
               conversations |-> <<>>, now |-> 0, writes |-> 0, last |-> None]

Init ==
    /\ driver \in Drivers
    /\ \E n \in 0..MaxAgents : registered = SubSeq(AgentOrder, 1, n)
    /\ oracle_down \in BOOLEAN
    /\ driver \in LibraryDrivers => (registered = <<>> /\ ~oracle_down)
    /\ pc = "init"
    /\ max_ticks = 0
    /\ max_conversations = None
    /\ tick = 0
    /\ tick_count = 0
    /\ conversation_count = 0
    /\ active = <<>>
    /\ current_agent_id = "none"
    /\ phase = "idle"
    /\ cycle_status = "none"
    /\ wf = [tick_count |-> 0, conversation_count |-> 0, max_conversations |-> None,
             exec_conv |-> FALSE, entry |-> <<>>]
    /\ agents_table = Range(registered)
    /\ conversations_table = 0
    /\ memories_table = [rows |-> 0, last |-> <<>>]
    /\ plans_table = 0
    /\ long_term_memories = [a \in Range(registered) |-> <<>>]
    /\ clock = 0
    /\ raised = FALSE
    /\ rel = [list |-> <<>>, last |-> None]
    /\ db = DbInit
    /\ obs = [variant |-> "none", hour |-> None, time_context |-> None]
    /\ win = WinInit
    /\ planning = PlanningInit
    /\ activity = ActInit
    /\ graph_loop = LoopInit
    /\ memory_system = MemSysInit
    /\ hist = HistInit

(***************************************************************************)
(* langgraph/executor.py                                                   *)
(***************************************************************************)
\* The action texts of run.py:_generate_action_description (in English), each
\* with the keyword groups of _classify_action that occur in the original text.
ActionTemplates ==
    { [type |-> "social_interaction", text |-> "chat in the group", hits |-> {"social"}],
      [type |-> "social_interaction", text |-> "care about other mothers", hits |-> {}],
      [type |-> "social_interaction", text |-> "share parenting experience", hits |-> {"social", "childcare"}],
      [type |-> "social_interaction", text |-> "reply to a friend", hits |-> {}],
      [type |-> "digital_activity", text |-> "watch parenting videos on douyin", hits |-> {"digital", "childcare"}],
      [type |-> "digital_activity", text |-> "read articles on wechat", hits |-> {}],
      [type |-> "digital_activity", text |-> "search parenting knowledge", hits |-> {"childcare", "learning"}],
      [type |-> "digital_activity", text |-> "watch health content", hits |-> {}],
      [type |-> "digital_activity", text |-> "watch education videos", hits |-> {}],
      [type |-> "childcare", text |-> "daily care of the child", hits |-> {"childcare"}],
      [type |-> "childcare", text |-> "prepare the child's food", hits |-> {"childcare"}],
      [type |-> "childcare", text |-> "play with the child", hits |-> {"childcare"}],
      [type |-> "childcare", text |-> "check the child's health", hits |-> {"childcare"}],
      [type |-> "learning", text |-> "learn parenting knowledge", hits |-> {"childcare", "learning"}],
      [type |-> "learning", text |-> "find out health information", hits |-> {"learning"}],
      [type |-> "learning", text |-> "learn new care methods", hits |-> {"learning"}],
      [type |-> "learning", text |-> "view education content", hits |-> {}] }

\* ExecutorNode._classify_action: the first keyword group that matches
_classify_action(action) ==
    IF "social" \in action.hits THEN "social_interaction"
    ELSE IF "digital" \in action.hits THEN "digital_activity"
    ELSE IF "childcare" \in action.hits THEN "childcare"
    ELSE IF "learning" \in action.hits THEN "learning"
    ELSE "general"

\* ExecutorNode.generate_conversation: the oracle's text is stored as a row
\* and returned; on failure a fallback message is returned and no row is
\* written.  Both dicts carry from_agent.
executor_generate_conversation(outcome) ==
    IF outcome = "fail"
    THEN [row |-> FALSE, message |-> "fallback", from_agent |-> TRUE]
    ELSE [row |-> TRUE, message |-> outcome, from_agent |-> TRUE]

\* The dict of a branch that produced no conversation
NoConversation(type) == [row |-> FALSE, message |-> "empty", from_agent |-> FALSE, type |-> type]
WithType(conv, type) == [row |-> conv.row, message |-> conv.message,
                         from_agent |-> conv.from_agent, type |-> type]

\* ExecutorNode._select_interaction_target: some other registered agent
InteractionTargets(a) == agents_table \ {a}

\* The results ExecutorNode.execute_action can return for agent a:
\* [res: result dict, imps: importances of the memory rows written, in order]
SocialResults(a) ==
    {[res |-> WithType(executor_generate_conversation(o), "conversation"), imps |-> <<4>>] :
        o \in OracleOutcomes}                                     \* group_chat
    \cup (IF InteractionTargets(a) # {}
          THEN {[res |-> WithType(executor_generate_conversation(o), "conversation"),
                 imps |-> <<4>>] : o \in OracleOutcomes}          \* private_message
          ELSE {[res |-> NoConversation("no_target_found"), imps |-> <<4>>]})
    \cup {[res |-> WithType(executor_generate_conversation(o), "conversation"),
           imps |-> <<6, 4>>] : o \in OracleOutcomes}             \* content_sharing

DigitalResults(a) ==
    {[res |-> NoConversation("video_watching"), imps |-> <<>>],   \* learned nothing
     [res |-> NoConversation("video_watching"), imps |-> <<5>>]}  \* learned, not shared
    \cup {[res |-> [row |-> executor_generate_conversation(o).row, message |-> "empty",
                    from_agent |-> FALSE, type |-> "video_watching"],
           imps |-> <<5, 6>>] : o \in OracleOutcomes}             \* learned and shared

ChildcareResultsAnyone(a) ==
    {[res |-> NoConversation("normal_childcare"), imps |-> <<3>>]}
    \cup {[res |-> WithType(executor_generate_conversation(o), "childcare_with_concern"),
           imps |-> <<8>>] : o \in OracleOutcomes}
ChildcareResults(a) ==
    IF ~HasChildren(a)
    THEN {[res |-> NoConversation("no_children"), imps |-> <<>>]}
    ELSE {[res |-> NoConversation("normal_childcare"), imps |-> <<3>>]}
         \cup {[res |-> WithType(executor_generate_conversation(o), "childcare_with_concern"),
                imps |-> <<8>>] : o \in OracleOutcomes}

LearningResults(a) == {[res |-> NoConversation("learning"), imps |-> <<5>>]}

GeneralResults(a, priority) == {[res |-> NoConversation("general_action"), imps |-> <<priority>>]}

execute_action(a, action, priority) ==
    LET c == _classify_action(action) IN
    IF c = "social_interaction" THEN SocialResults(a)
    ELSE IF c = "digital_activity" THEN DigitalResults(a)
    ELSE IF c = "childcare" THEN ChildcareResults(a)
    ELSE IF c = "learning" THEN LearningResults(a)
    ELSE GeneralResults(a, priority)

(***************************************************************************)
(* run.py: MamaVillageSimulation                                           *)
(***************************************************************************)
\* the arguments of run_simulation: the smallest and the largest run length,
\* and no cap, a cap of 0, and the largest cap
MaxTicksInputs == {1, MaxTicksArg}
MaxConversationsInputs == {None, Some(0), Some(MaxConvArg)}
ActionPriorities == {3, 8}      \* ends of random.randint(3, 8)
PlanPriorities == {1, 10}       \* ends of min(10, max(1, priority))

\* run_simulation, the test of line 102: a cap of None or 0 is no cap
run_limit_reached(mc, cc) == mc # None /\ mc[1] # 0 /\ cc >= mc[1]

\* a display that counts the concern and the message of a childcare result
_display_action_result_each(res, a) ==
    IF res.type = "normal_childcare" THEN 0
    ELSE IF res.type = "childcare_with_concern"
         THEN 1 + (IF res.message # "empty" THEN 1 ELSE 0)
    ELSE IF res.from_agent /\ IdContainsConversation(a) THEN 1
    ELSE 0

\* _display_action_result: what the result adds to conversation_count
_display_action_result(res, a) ==
    IF res.type = "normal_childcare" THEN 0
    ELSE IF res.type = "childcare_with_concern"
         THEN (IF res.message # "empty" THEN 1 ELSE 0)
    ELSE IF res.from_agent /\ IdContainsConversation(a) THEN 1
    ELSE 0

Bump(b) == IF b THEN 1 ELSE 0

\* run_simulation, up to the loop
Run_run_simulation ==
    /\ driver = "run" /\ pc = "init"
    /\ max_ticks' \in MaxTicksInputs
    /\ max_conversations' \in MaxConversationsInputs
    /\ conversation_count' = 0
    /\ tick' = 0
    /\ pc' = "loop"
    /\ hist' = [HistInit EXCEPT !.agents0 = agents_table, !.last = "run_simulation"]
    /\ UNCHANGED <<envVars, libVars, tick_count, cycleVars, wf, storeVars, agentVars, raised>>

\* _run_tick: random.sample(list(self.agents.keys()), min(random.randint(1, 3),
\* len(self.agents))), the lists it can return
_run_tick_selections ==
    UNION {Samples(Range(registered), Min(k, Len(registered))) : k \in 1..MaxActivePerTick}

\* one iteration head of "for tick in range(max_ticks)": the cap test, then
\* _run_tick's random.sample of 1..3 agents
Run_loop ==
    /\ driver = "run" /\ pc = "loop"
    /\ IF tick >= max_ticks
       THEN /\ pc' = "finished"
            /\ UNCHANGED <<tick_count, active, hist>>
       ELSE /\ tick_count' = tick + 1
            /\ IF run_limit_reached(max_conversations, conversation_count)
               THEN /\ pc' = "finished"
                    /\ UNCHANGED <<active>>
                    /\ hist' = [hist EXCEPT !.last = "break"]
               ELSE /\ pc' = "tick"
                    /\ active' \in _run_tick_selections
                    /\ hist' = [hist EXCEPT !.cycles = 0,
                                            !.last = "_run_tick"]
    /\ UNCHANGED <<envVars, libVars, max_ticks, max_conversations, tick, conversation_count,
                   current_agent_id, phase, cycle_status, wf, storeVars, agentVars, raised>>

\* _run_agent_cycle for the next sampled agent, step 1: observe_environment
\* (reads the store, writes nothing)
Run_observe ==
    /\ driver = "run" /\ pc = "tick" /\ active # <<>>
    /\ cycle_status # "running"
    /\ current_agent_id' = Head(active)
    /\ active' = Tail(active)
    /\ phase' = "observe"
    /\ cycle_status' = "running"
    /\ hist' = [hist EXCEPT !.cycles = @ + 1, !.phases = <<"observe">>, !.last = "observe"]
    /\ UNCHANGED <<envVars, libVars, activity, graph_loop, memory_system, runVars, wf, storeVars, agentVars, raised>>

\* step 2: with probability 0.3 PlannerNode.generate_daily_plan, which saves
\* the oracle's plan (a plan row and a memory row per action) or, when the
\* oracle fails, returns the unsaved fallback plan
Run_plan ==
    /\ driver = "run" /\ cycle_status = "running" /\ phase = "observe"
    /\ phase' = "plan"
    /\ \/ UNCHANGED <<plans_table, memories_table>>
       \/ \E o \in OracleOutcomes :
            IF o = "text"
            THEN \E n \in 0..MaxPlanActions : \E prios \in [1..n -> PlanPriorities] :
                    /\ plans_table' = plans_table + n
                    /\ memories_table' = db_add_memories(memories_table, prios)
            ELSE UNCHANGED <<plans_table, memories_table>>
    /\ hist' = [hist EXCEPT !.phases = Append(@, "plan"), !.last = "plan"]
    /\ memories_table'.rows <= MaxStoreRows
    /\ UNCHANGED <<envVars, libVars, activity, graph_loop, memory_system, runVars, active, current_agent_id, cycle_status, wf,
                   agents_table, conversations_table, agentVars, raised>>

\* step 3: _execute_agent_action: a random action text, ExecutorNode.execute_action,
\* then _display_action_result
Run_execute ==
    /\ driver = "run" /\ cycle_status = "running" /\ phase = "plan"
    /\ phase' = "execute"
    /\ \E action \in ActionTemplates, priority \in ActionPriorities :
       \E r \in execute_action(current_agent_id, action, priority) :
          /\ memories_table' = db_add_memories(memories_table, r.imps)
          /\ conversations_table' =
                IF r.res.row THEN db_add_conversation(conversations_table)
                ELSE conversations_table
          /\ conversation_count' =
                conversation_count + _display_action_result(r.res, current_agent_id)
          /\ hist' = [hist EXCEPT !.phases = Append(@, "execute"),
                                  !.appended = @ + Bump(r.res.row),
                                  !.last = _classify_action(action)]
    /\ memories_table'.rows <= MaxStoreRows
    /\ UNCHANGED <<envVars, libVars, pc, max_ticks, max_conversations, tick, tick_count,
                   active, current_agent_id, cycle_status, wf, agents_table,
                   plans_table, agentVars, raised>>

\* step 4: with probability 0.2 ReflectorNode.generate_daily_reflection:
\* nothing without memories of today, else a memory row of importance 7, or
\* of importance 5 when the oracle fails
Run_reflect ==
    /\ driver = "run" /\ cycle_status = "running" /\ phase = "execute"
    /\ phase' = "reflect"
    /\ \/ UNCHANGED memories_table
       \/ /\ memories_table.rows > 0
          /\ \E o \in OracleOutcomes :
                memories_table' = db_add_memory(memories_table, IF o = "fail" THEN 5 ELSE 7)
    /\ hist' = [hist EXCEPT !.phases = Append(@, "reflect"), !.last = "reflect"]
    /\ memories_table'.rows <= MaxStoreRows
    /\ UNCHANGED <<envVars, libVars, activity, graph_loop, memory_system, runVars, active, current_agent_id, cycle_status, wf,
                   agents_table, conversations_table, plans_table, agentVars, raised>>

\* _run_agent_cycle returns
Run_cycle_done ==
    /\ driver = "run" /\ cycle_status = "running" /\ phase = "reflect"
    /\ phase' = "done"
    /\ cycle_status' = "done"
    /\ hist' = [hist EXCEPT !.phases = Append(@, "done"), !.last = "done"]
    /\ UNCHANGED <<envVars, libVars, activity, graph_loop, memory_system, runVars, active, current_agent_id, wf, storeVars,
                   agentVars, raised>>

\* _run_tick returns: next iteration of the loop
Run_tick_done ==
    /\ driver = "run" /\ pc = "tick" /\ active = <<>> /\ cycle_status # "running"
    /\ tick' = tick + 1
    /\ pc' = "loop"
    /\ hist' = [hist EXCEPT !.last = "tick_done"]
    /\ UNCHANGED <<envVars, libVars, max_ticks, max_conversations, tick_count, conversation_count,
                   cycleVars, wf, storeVars, agentVars, raised>>

(***************************************************************************)
(* core/agent.py, core/intelligent_agent.py: the long-term memory list.    *)
(* A memory is [importance, ts]; ts is its creation time.                  *)
(***************************************************************************)
\* Memory(...): pydantic accepts an importance of 1..10 only
ValidImportance(i) == i >= MinImportance /\ i <= MaxImportance

\* sorted(key=lambda m: m.importance, reverse=True): a stable sort, so
\* memories of equal importance keep their order in the list
RECURSIVE SortFrom(_, _)
SortFrom(list, v) ==
    IF v < MinImportance THEN <<>>
    ELSE SelectSeq(list, LAMBDA m : m.importance = v) \o SortFrom(list, v - 1)
SortByImportanceAsc(list) ==
    IF list = <<>> THEN <<>>
    ELSE LET s == SortFrom(list, MaxImportance)
         IN [k \in 1..Len(s) |-> s[Len(s) + 1 - k]]
SortByImportanceDesc(list) == SortFrom(list, MaxImportance)

\* add_memory, past the validation: append, and above 100 memories sort by
\* importance and keep the first 80
add_memory(list, importance, ts) ==
    LET appended == Append(list, [importance |-> importance, ts |-> ts])
    IN IF Len(appended) > MemoryHighWater
       THEN SubSeq(SortByImportanceDesc(appended), 1, MemoryKeep)
       ELSE appended

RECURSIVE add_memories(_, _, _)
add_memories(list, imps, ts) ==
    IF imps = <<>> THEN list
    ELSE add_memories(add_memory(list, Head(imps), ts + 1), Tail(imps), ts + 1)

\* memories held by all agents
RECURSIVE TotalLen(_, _)
TotalLen(lists, S) ==
    IF S = {} THEN 0
    ELSE LET a == CHOOSE x \in S : TRUE IN Len(lists[a]) + TotalLen(lists, S \ {a})
MayAddMemories(imps) ==
    imps # <<>> => TotalLen(long_term_memories, DOMAIN long_term_memories) < MaxRunMemories

\* SimulationState.is_conversation_limit_reached
is_conversation_limit_reached(mc, cc) == IF mc = None THEN FALSE ELSE cc >= mc[1]

\* MemorySystemManager.add_conversation: save_conversation by the manager,
\* by the sender's memory manager and by the receiver's, each a new row
memory_system_add_conversation(table, has_to_agent) ==
    table + 2 + Bump(has_to_agent)

RunNext ==
    \/ Run_run_simulation \/ Run_loop \/ Run_observe \/ Run_plan \/ Run_execute
    \/ Run_reflect \/ Run_cycle_done \/ Run_tick_done

\* KeyboardInterrupt.  Python raises it in the main thread between any two
\* bytecodes; no handler of the cycle catches it ("except Exception" does
\* not), so it reaches "except KeyboardInterrupt" of run_simulation, which
\* prints, shows the summary and returns.
\* Here it arrives between two steps: in the loop (time.sleep included), or
\* inside _run_agent_cycle between two phases.
Run_KeyboardInterrupt ==
    /\ driver = "run" /\ pc \in {"loop", "tick"}
    /\ pc' = "interrupted"
    /\ cycle_status' = IF cycle_status = "running" THEN "interrupted" ELSE cycle_status
    /\ hist' = [hist EXCEPT !.last = "KeyboardInterrupt"]
    /\ UNCHANGED <<envVars, libVars, max_ticks, max_conversations, tick, tick_count,
                   conversation_count, active, current_agent_id, phase, wf, storeVars,
                   agentVars, raised>>

\* Here it arrives inside _execute_agent_action, after executor.execute_action
\* has returned (its rows are committed) and before _display_action_result
\* has counted the conversation.
Run_execute_KeyboardInterrupt ==
    /\ driver = "run" /\ pc = "tick" /\ cycle_status = "running" /\ phase = "plan"
    /\ pc' = "interrupted"
    /\ cycle_status' = "interrupted"
    /\ \E action \in ActionTemplates, priority \in ActionPriorities :
       \E r \in execute_action(current_agent_id, action, priority) :
          /\ memories_table' = db_add_memories(memories_table, r.imps)
          /\ conversations_table' =
                IF r.res.row THEN db_add_conversation(conversations_table)
                ELSE conversations_table
          /\ hist' = [hist EXCEPT !.appended = @ + Bump(r.res.row),
                                  !.last = "KeyboardInterrupt"]
    /\ memories_table'.rows <= MaxStoreRows
    /\ UNCHANGED <<envVars, libVars, max_ticks, max_conversations, tick, tick_count,
                   conversation_count, active, current_agent_id, phase, wf, agents_table,
                   plans_table, agentVars, raised>>

RunInterruptNext == Run_KeyboardInterrupt \/ Run_execute_KeyboardInterrupt
InterruptNext == RunNext \/ RunInterruptNext

(***************************************************************************)
(* run_intelligent.py: IntelligentMamaVillageSimulation                    *)
(***************************************************************************)
\* get_active_profiles(current_hour), or all profiles when none is active,
\* cut to the first three: the clock decides which profiles are active
ActiveProfiles ==
    { LET act == SelectSeq(registered, LAMBDA a : a \in S)
          all == IF act = <<>> THEN registered ELSE act
      IN SubSeq(all, 1, Min(MaxActivePerTick, Len(all))) : S \in SUBSET Range(registered) }

\* IntelligentMamaVillageAgent.decide_next_action followed by
\* _process_intelligent_action.  A result is [kind: action_type returned,
\* imps: memories added, conv: conversation made].
\* the JSON answer of the decision oracle, as _parse_action_decision
\* returns it
ActionTypes == {"conversation", "digital_activity", "childcare", "learning", "rest"}
Decisions == [should_act : BOOLEAN, action_type : ActionTypes]

\* _ai_driven_conversation: a conversation when the oracle gives one
ai_driven_conversation ==
    {[kind |-> "conversation", imps |-> <<>>, conv |-> (o = "text")] : o \in OracleOutcomes}

\* _execute_decided_action: rest when should_act is false; otherwise the
\* branch of the action type, and the else branch, a conversation, for
\* every type that has no branch of its own
_execute_decided_action(a, d) ==
    IF ~d.should_act
    THEN {[kind |-> "rest", imps |-> <<>>, conv |-> FALSE]}
    ELSE IF d.action_type = "conversation" THEN ai_driven_conversation
    ELSE IF d.action_type = "digital_activity"
    THEN {[kind |-> "digital_activity", imps |-> <<>>, conv |-> FALSE],
          [kind |-> "digital_activity", imps |-> <<6>>, conv |-> FALSE]}
    ELSE IF d.action_type = "childcare"
    THEN (IF ~HasChildren(a)
          THEN {[kind |-> "childcare", imps |-> <<>>, conv |-> FALSE]}
          ELSE {[kind |-> "childcare", imps |-> <<>>, conv |-> FALSE]}    \* no concern
               \cup {[kind |-> "childcare", imps |-> <<8>>, conv |-> (o = "text")] :
                       o \in OracleOutcomes})                             \* needs_help
    ELSE IF d.action_type = "learning"
    THEN {[kind |-> "learning", imps |-> <<5>>, conv |-> FALSE]}
    ELSE ai_driven_conversation

\* decide_next_action: None when the oracle fails or its answer cannot be
\* parsed, otherwise what _execute_decided_action returns for the decision
IntelligentResults(a) ==
    {[kind |-> "none", imps |-> <<>>, conv |-> FALSE]}
    \cup (IF oracle_down THEN {}
          ELSE UNION {_execute_decided_action(a, d) : d \in Decisions})

\* run_intelligent_simulation, up to the loop
Int_run_intelligent_simulation ==
    /\ driver = "intelligent" /\ pc = "init"
    /\ max_ticks' \in MaxTicksInputs
    /\ max_conversations' \in MaxConversationsInputs
    /\ tick' = 0
    /\ pc' = "loop"
    /\ hist' = [HistInit EXCEPT !.agents0 = agents_table,
                                !.last = "run_intelligent_simulation"]
    /\ UNCHANGED <<envVars, libVars, tick_count, conversation_count, cycleVars, wf, storeVars,
                   agentVars, raised>>

\* one iteration head of the loop: the cap test, then the active profiles
Int_loop ==
    /\ driver = "intelligent" /\ pc = "loop"
    /\ IF tick >= max_ticks
       THEN /\ pc' = "finished"
            /\ UNCHANGED <<tick_count, active, hist>>
       ELSE /\ tick_count' = tick + 1
            /\ IF is_conversation_limit_reached(max_conversations, conversation_count)
               THEN /\ pc' = "finished"
                    /\ UNCHANGED <<active>>
                    /\ hist' = [hist EXCEPT !.last = "break"]
               ELSE /\ pc' = "tick"
                    /\ active' \in ActiveProfiles
                    /\ hist' = [hist EXCEPT !.cycles = 0,
                                            !.last = "_run_intelligent_tick"]
    /\ UNCHANGED <<envVars, libVars, max_ticks, max_conversations, tick, conversation_count,
                   current_agent_id, phase, cycle_status, wf, storeVars, agentVars, raised>>

\* _run_intelligent_agent_cycle for the next active agent
Int_agent_cycle ==
    /\ driver = "intelligent" /\ pc = "tick" /\ active # <<>>
    /\ current_agent_id' = Head(active)
    /\ active' = Tail(active)
    /\ \E r \in IntelligentResults(Head(active)) :
          /\ MayAddMemories(r.imps)
          /\ long_term_memories' = [long_term_memories EXCEPT ![Head(active)] =
                                        add_memories(@, r.imps, clock)]
          /\ clock' = clock + Len(r.imps)
          /\ conversation_count' = conversation_count + Bump(r.conv)
          /\ conversations_table' =
                IF r.conv THEN memory_system_add_conversation(conversations_table, FALSE)
                ELSE conversations_table
          /\ hist' = [hist EXCEPT !.cycles = @ + 1, !.appended = @ + Bump(r.conv),
                                  !.last = r.kind]
    /\ UNCHANGED <<envVars, libVars, pc, max_ticks, max_conversations, tick, tick_count,
                   phase, cycle_status, wf, agents_table, memories_table, plans_table,
                   raised>>

\* _run_intelligent_tick returns: next iteration of the loop
Int_tick_done ==
    /\ driver = "intelligent" /\ pc = "tick" /\ active = <<>>
    /\ tick' = tick + 1
    /\ pc' = "loop"
    /\ hist' = [hist EXCEPT !.last = "tick_done"]
    /\ UNCHANGED <<envVars, libVars, max_ticks, max_conversations, tick_count, conversation_count,
                   cycleVars, wf, storeVars, agentVars, raised>>

\* "except Exception as e: print(...)" of _run_agent_cycle and of
\* _run_intelligent_agent_cycle: the exception of a phase (the store's own
\* errors are caught inside the store) ends the cycle and is not raised again
_run_agent_cycle_reraise == [raised |-> TRUE]
_run_agent_cycle_except == [raised |-> FALSE]

\* run.py: a phase of the running cycle raises
Run_phase_error ==
    /\ driver = "run" /\ pc = "tick" /\ cycle_status = "running"
    /\ phase \in {"observe", "plan", "execute"}
    /\ raised' = _run_agent_cycle_except.raised
    /\ IF raised'
       THEN pc' = "finished" /\ cycle_status' = "aborted"
       ELSE pc' = pc /\ cycle_status' = "failed"
    /\ hist' = [hist EXCEPT !.last = "Exception"]
    /\ UNCHANGED <<envVars, libVars, max_ticks, max_conversations, tick, tick_count,
                   conversation_count, active, current_agent_id, phase, wf, storeVars,
                   agentVars>>

\* run_intelligent.py: the cycle of the next active agent raises
Int_agent_cycle_error ==
    /\ driver = "intelligent" /\ pc = "tick" /\ active # <<>>
    /\ current_agent_id' = Head(active)
    /\ active' = Tail(active)
    /\ raised' = _run_agent_cycle_except.raised
    /\ pc' = IF raised' THEN "finished" ELSE pc
    /\ hist' = [hist EXCEPT !.cycles = @ + 1, !.last = "Exception"]
    /\ UNCHANGED <<envVars, libVars, max_ticks, max_conversations, tick, tick_count,
                   conversation_count, phase, cycle_status, wf, storeVars, agentVars>>

CycleErrorNext == Run_phase_error \/ Int_agent_cycle_error

IntNext ==
    \/ Int_run_intelligent_simulation \/ Int_loop \/ Int_agent_cycle \/ Int_tick_done

(***************************************************************************)
(* run_new.py: MamaVillageSimulation over core/workflow.py.                *)
(* wf is the SimulationState inside the WorkflowState handed to the graph: *)
(* invoke() works on a copy (state.dict()), so the driver's own counters   *)
(* are not written by the graph.  wf.exec_conv: the "execute" node output  *)
(* holds a conversation; wf.entry: the state run_single_cycle was called   *)
(* with, which its except clause returns.                                  *)
(***************************************************************************)
GraphDrivers == {"workflow", "autonomous"}
Snapshot(w) == <<w.tick_count, w.conversation_count, w.exec_conv>>

\* run_single_cycle's "except Exception": print, return the state passed in
run_single_cycle_reraise(w) == [raised |-> TRUE, wf |-> w]
run_single_cycle_except(w) ==
    [raised |-> FALSE,
     wf |-> [w EXCEPT !.tick_count = w.entry[1], !.conversation_count = w.entry[2],
                      !.exec_conv = w.entry[3]]]

\* MamaVillageWorkflow._should_continue
_should_continue(w) ==
    IF is_conversation_limit_reached(w.max_conversations, w.conversation_count) THEN "end"
    ELSE IF w.tick_count >= GraphTickCap THEN "end"
    ELSE "continue"

\* MamaVillageAgent.take_initiative_action followed by _process_action_result:
\* [kind, imps: memories added, conv: add_conversation called, exec_conv]
WorkflowResults(a) ==
    {[kind |-> "none", imps |-> <<>>, conv |-> FALSE, exec_conv |-> FALSE]}
    \cup {IF o = "text"
          THEN [kind |-> "conversation", imps |-> <<5>>, conv |-> TRUE, exec_conv |-> TRUE]
          ELSE [kind |-> "conversation", imps |-> <<>>, conv |-> FALSE, exec_conv |-> FALSE] :
            o \in OracleOutcomes}
    \cup {[kind |-> "digital_activity", imps |-> <<5>>, conv |-> FALSE, exec_conv |-> FALSE],
          [kind |-> "digital_activity", imps |-> <<6, 5>>, conv |-> FALSE, exec_conv |-> FALSE],
          [kind |-> "learning", imps |-> <<5, 5>>, conv |-> FALSE, exec_conv |-> FALSE]}
    \cup (IF ~HasChildren(a)
          THEN {[kind |-> "childcare", imps |-> <<>>, conv |-> FALSE, exec_conv |-> FALSE]}
          ELSE {[kind |-> "childcare", imps |-> <<5>>, conv |-> FALSE, exec_conv |-> FALSE]}
               \cup {[kind |-> "childcare", imps |-> <<8, 5>>, conv |-> (o = "text"),
                      exec_conv |-> FALSE] : o \in OracleOutcomes})

\* run_simulation, up to the loop.  WorkflowState(simulation_state=...) keeps
\* or copies the driver's SimulationState, depending on the pydantic version:
\* the graph's tick_count starts at the driver's old or new value.
Wf_run_simulation ==
    /\ driver = "workflow" /\ pc = "init"
    /\ max_ticks' \in MaxTicksInputs
    /\ max_conversations' \in MaxConversationsInputs
    /\ tick' = 0
    /\ pc' = "loop"
    /\ \E t \in {tick_count, 1} :
          wf' = [tick_count |-> t, conversation_count |-> conversation_count,
                 max_conversations |-> max_conversations', exec_conv |-> FALSE,
                 entry |-> <<>>]
    /\ hist' = [HistInit EXCEPT !.agents0 = agents_table, !.last = "run_simulation"]
    /\ UNCHANGED <<envVars, libVars, tick_count, conversation_count, cycleVars, storeVars,
                   agentVars, raised>>

\* one iteration head of the loop: the cap test on the driver's state, then
\* run_single_cycle calls invoke()
Wf_loop ==
    /\ driver = "workflow" /\ pc = "loop"
    /\ IF tick >= max_ticks
       THEN /\ pc' = "finished"
            /\ UNCHANGED <<tick_count, wf, cycle_status, hist>>
       ELSE /\ tick_count' = tick + 1
            /\ IF is_conversation_limit_reached(max_conversations, conversation_count)
               THEN /\ pc' = "finished"
                    /\ UNCHANGED <<wf, cycle_status>>
                    /\ hist' = [hist EXCEPT !.last = "break"]
               ELSE /\ hist.graph_cycles < MaxCycles
                    /\ pc' = "graph"
                    /\ wf' = [wf EXCEPT !.entry = Snapshot(wf)]
                    /\ cycle_status' = "none"
                    /\ hist' = [hist EXCEPT !.last = "run_single_cycle"]
    /\ UNCHANGED <<envVars, libVars, max_ticks, max_conversations, tick, conversation_count,
                   active, current_agent_id, phase, storeVars, agentVars, raised>>

\* what random.choice(active_profiles) can return
_select_agent_choices == Range(registered)

\* _select_agent_node: random.choice of the active profiles (all when none
\* is active); random.choice([]) raises IndexError
Wf_select_agent ==
    /\ driver = "workflow" /\ pc = "graph" /\ cycle_status # "running"
    /\ phase' = "select"
    /\ IF registered = <<>>
       THEN /\ cycle_status' = "aborted"
            /\ pc' = "graph_end"
            /\ UNCHANGED current_agent_id
            /\ hist' = [hist EXCEPT !.graph_cycles = @ + 1, !.phases = <<>>,
                                    !.last = "IndexError"]
       ELSE /\ cycle_status' = "running"
            /\ current_agent_id' \in _select_agent_choices
            /\ UNCHANGED pc
            /\ hist' = [hist EXCEPT !.graph_cycles = @ + 1, !.phases = <<>>,
                                    !.last = "select"]
    /\ UNCHANGED <<envVars, libVars, max_ticks, max_conversations, tick, tick_count,
                   conversation_count, active, wf, storeVars, agentVars, raised>>

\* _observe_node: no agent selected gives a failure output, else the
\* observation is stored in the agent's state
Wf_observe ==
    /\ driver = "workflow" /\ pc = "graph" /\ cycle_status = "running" /\ phase = "select"
    /\ phase' = "observe"
    /\ hist' = [hist EXCEPT !.phases = Append(@, "observe"), !.last = "observe"]
    /\ UNCHANGED <<envVars, libVars, activity, graph_loop, memory_system, runVars, active, current_agent_id, cycle_status, wf,
                   storeVars, agentVars, raised>>

\* _plan_node: self.agents[state.current_agent_id], then a plan with
\* probability 0.3 (kept in the agent's state)
Wf_plan ==
    /\ driver = "workflow" /\ pc = "graph" /\ cycle_status = "running" /\ phase = "observe"
    /\ current_agent_id \in Range(registered)
    /\ phase' = "plan"
    /\ hist' = [hist EXCEPT !.phases = Append(@, "plan"), !.last = "plan"]
    /\ UNCHANGED <<envVars, libVars, activity, graph_loop, memory_system, runVars, active, current_agent_id, cycle_status, wf,
                   storeVars, agentVars, raised>>

\* _execute_node: take_initiative_action, and _process_action_result when
\* the result is not empty
Wf_execute ==
    /\ driver = "workflow" /\ pc = "graph" /\ cycle_status = "running" /\ phase = "plan"
    /\ phase' = "execute"
    /\ \E r \in WorkflowResults(current_agent_id) :
          /\ MayAddMemories(r.imps)
          /\ long_term_memories' = [long_term_memories EXCEPT ![current_agent_id] =
                                        add_memories(@, r.imps, clock)]
          /\ clock' = clock + Len(r.imps)
          /\ wf' = [wf EXCEPT !.conversation_count = @ + Bump(r.conv),
                              !.exec_conv = r.exec_conv]
          /\ hist' = [hist EXCEPT !.phases = Append(@, "execute"),
                                  !.appended = @ + Bump(r.conv), !.last = r.kind]
    /\ UNCHANGED <<envVars, libVars, activity, graph_loop, memory_system, runVars, active, current_agent_id, cycle_status,
                   storeVars, raised>>

\* _reflect_node: with probability 0.2 a reflection memory of importance
\* random.randint(3, 6)
ReflectionImportances == {3, 6}
Wf_reflect ==
    /\ driver = "workflow" /\ pc = "graph" /\ cycle_status = "running" /\ phase = "execute"
    /\ phase' = "reflect"
    /\ \/ UNCHANGED agentVars
       \/ \E i \in ReflectionImportances :
            /\ MayAddMemories(<<i>>)
            /\ long_term_memories' = [long_term_memories EXCEPT ![current_agent_id] =
                                          add_memory(@, i, clock + 1)]
            /\ clock' = clock + 1
    /\ hist' = [hist EXCEPT !.phases = Append(@, "reflect"), !.last = "reflect"]
    /\ UNCHANGED <<envVars, libVars, activity, graph_loop, memory_system, runVars, active, current_agent_id, cycle_status, wf,
                   storeVars, raised>>

\* _process_results_node and the conditional edge _should_continue
Wf_process_results ==
    /\ driver = "workflow" /\ pc = "graph" /\ cycle_status = "running" /\ phase = "reflect"
    /\ phase' = "done"
    /\ cycle_status' = "done"
    /\ wf' = [wf EXCEPT !.tick_count = @ + 1]
    /\ IF _should_continue(wf') = "end"
       THEN /\ pc' = "graph_end"
            /\ hist' = [hist EXCEPT !.phases = Append(@, "done"), !.last = "end"]
       ELSE /\ hist.graph_cycles < MaxCycles
            /\ pc' = "graph"
            /\ hist' = [hist EXCEPT !.phases = Append(@, "done"), !.last = "continue"]
    /\ UNCHANGED <<envVars, libVars, max_ticks, max_conversations, tick, tick_count,
                   conversation_count, active, current_agent_id, storeVars, agentVars,
                   raised>>

\* run_single_cycle returns (the graph's state, or through its except clause
\* the state it was called with); then _process_new_conversations
Wf_run_single_cycle_return ==
    /\ driver = "workflow" /\ pc = "graph_end"
    /\ LET out == IF cycle_status = "aborted"
                  THEN run_single_cycle_except(wf)
                  ELSE [raised |-> FALSE, wf |-> wf]
       IN /\ raised' = out.raised
          /\ wf' = out.wf
          /\ IF out.raised
             THEN /\ pc' = "finished"
                  /\ UNCHANGED <<tick, conversations_table>>
             ELSE /\ pc' = "loop"
                  /\ tick' = tick + 1
                  /\ conversations_table' =
                        IF out.wf.exec_conv
                        THEN memory_system_add_conversation(conversations_table, FALSE)
                        ELSE conversations_table
    /\ hist' = [hist EXCEPT !.last = "tick_done"]
    /\ UNCHANGED <<envVars, libVars, max_ticks, max_conversations, tick_count, conversation_count,
                   cycleVars, agents_table, memories_table, plans_table, agentVars>>

WfNext ==
    \/ Wf_run_simulation \/ Wf_loop \/ Wf_select_agent \/ Wf_observe \/ Wf_plan
    \/ Wf_execute \/ Wf_reflect \/ Wf_process_results \/ Wf_run_single_cycle_return

(***************************************************************************)
(* run_autonomous.py: AutonomousMamaVillageSimulation over                 *)
(* core/autonomous_workflow.py                                             *)
(***************************************************************************)
\* What the selection oracle's text can mention: names and ids of loaded
\* agents and of one agent that is not loaded
Mentionable == {AgentOrder[i] : i \in 1..(MaxAgents + 1)}
SelectionTexts ==
    {t \in [names : SUBSET Mentionable, ids : SUBSET Mentionable] :
        Cardinality(t.names) + Cardinality(t.ids) <= MaxMentions}

FirstIn(seq, S) ==
    IF \E i \in 1..Len(seq) : seq[i] \in S
    THEN seq[CHOOSE i \in 1..Len(seq) : seq[i] \in S /\ \A j \in 1..(i - 1) : seq[j] \notin S]
    ELSE "none"

\* _parse_agent_selection: the first agent whose name is in the text, else
\* the first whose id is in the text, else None
_parse_agent_selection(text) ==
    IF FirstIn(registered, text.names) # "none" THEN FirstIn(registered, text.names)
    ELSE FirstIn(registered, text.ids)

\* the fallback of _autonomous_agent_selection: list(self.agents.keys())[0]
FallbackLast(current) ==
    IF registered # <<>> THEN registered[Len(registered)] ELSE current
FallbackSelection(current) ==
    IF registered # <<>> THEN registered[1] ELSE current

\* run_autonomous_simulation, up to the loop
Auto_run_autonomous_simulation ==
    /\ driver = "autonomous" /\ pc = "init"
    /\ max_ticks' \in MaxTicksInputs
    /\ max_conversations' \in MaxConversationsInputs
    /\ tick' = 0
    /\ pc' = "loop"
    /\ \E t \in {tick_count, 1} :
          wf' = [tick_count |-> t, conversation_count |-> conversation_count,
                 max_conversations |-> max_conversations', exec_conv |-> FALSE,
                 entry |-> <<>>]
    /\ hist' = [HistInit EXCEPT !.agents0 = agents_table,
                                !.last = "run_autonomous_simulation"]
    /\ UNCHANGED <<envVars, libVars, tick_count, conversation_count, cycleVars, storeVars,
                   agentVars, raised>>

\* one iteration head of the loop: the cap test on the driver's state, then
\* run_single_cycle calls invoke()
Auto_loop ==
    /\ driver = "autonomous" /\ pc = "loop"
    /\ IF tick >= max_ticks
       THEN /\ pc' = "finished"
            /\ UNCHANGED <<tick_count, wf, cycle_status, hist>>
       ELSE /\ tick_count' = tick + 1
            /\ IF is_conversation_limit_reached(max_conversations, conversation_count)
               THEN /\ pc' = "finished"
                    /\ UNCHANGED <<wf, cycle_status>>
                    /\ hist' = [hist EXCEPT !.last = "break"]
               ELSE /\ hist.graph_cycles < MaxCycles
                    /\ pc' = "graph"
                    /\ wf' = [wf EXCEPT !.entry = Snapshot(wf)]
                    /\ cycle_status' = "none"
                    /\ hist' = [hist EXCEPT !.last = "run_single_cycle"]
    /\ UNCHANGED <<envVars, libVars, max_ticks, max_conversations, tick, conversation_count,
                   active, current_agent_id, phase, storeVars, agentVars, raised>>

\* _autonomous_agent_selection: the oracle's choice when its text names a
\* loaded agent, else the first loaded agent, else no change
Auto_agent_selection ==
    /\ driver = "autonomous" /\ pc = "graph" /\ cycle_status # "running"
    /\ phase' = "select"
    /\ cycle_status' = "running"
    /\ \E o \in OracleOutcomes :
         IF o = "fail"
         THEN /\ current_agent_id' = FallbackSelection(current_agent_id)
              /\ hist' = [hist EXCEPT !.graph_cycles = @ + 1, !.phases = <<>>, !.sel = "fail",
                                      !.last = "select"]
         ELSE \E text \in IF o = "empty" THEN {[names |-> {}, ids |-> {}]}
                          ELSE SelectionTexts :
              /\ current_agent_id' =
                    IF _parse_agent_selection(text) # "none"
                    THEN _parse_agent_selection(text)
                    ELSE FallbackSelection(current_agent_id)
              /\ hist' = [hist EXCEPT !.graph_cycles = @ + 1, !.phases = <<>>,
                            !.sel = IF (text.names \cup text.ids) \cap Range(registered) = {}
                                    THEN "names_none" ELSE "names_some",
                            !.last = "select"]
    /\ UNCHANGED <<envVars, libVars, activity, graph_loop, memory_system, runVars, active, wf, storeVars, agentVars, raised>>

\* _autonomous_observation: no agent selected gives a failure output, else
\* the observation is stored in the agent's state
Auto_observation ==
    /\ driver = "autonomous" /\ pc = "graph" /\ cycle_status = "running" /\ phase = "select"
    /\ phase' = "observe"
    /\ hist' = [hist EXCEPT !.phases = Append(@, "observe"), !.sel = "none",
                            !.last = "observe"]
    /\ UNCHANGED <<envVars, libVars, activity, graph_loop, memory_system, runVars, active, current_agent_id, cycle_status, wf,
                   storeVars, agentVars, raised>>

\* _autonomous_planning: self.agents[state.current_agent_id] raises KeyError
\* when no agent is selected; else the oracle decides on a plan (kept in the
\* agent's state)
Auto_planning ==
    /\ driver = "autonomous" /\ pc = "graph" /\ cycle_status = "running" /\ phase = "observe"
    /\ phase' = "plan"
    /\ IF current_agent_id \notin Range(registered)
       THEN /\ cycle_status' = "aborted"
            /\ pc' = "graph_end"
            /\ hist' = [hist EXCEPT !.last = "KeyError"]
       ELSE /\ UNCHANGED <<cycle_status, pc>>
            /\ hist' = [hist EXCEPT !.phases = Append(@, "plan"), !.last = "plan"]
    /\ UNCHANGED <<envVars, libVars, max_ticks, max_conversations, tick, tick_count,
                   conversation_count, active, current_agent_id, wf, storeVars,
                   agentVars, raised>>

\* _autonomous_execution: decide_next_action, and _process_autonomous_action
\* when the result is not empty
Auto_execution_result(r) ==
    /\ driver = "autonomous" /\ pc = "graph" /\ cycle_status = "running" /\ phase = "plan"
    /\ phase' = "execute"
    /\ MayAddMemories(r.imps)
    /\ long_term_memories' = [long_term_memories EXCEPT ![current_agent_id] =
                                  add_memories(@, r.imps, clock)]
    /\ clock' = clock + Len(r.imps)
    /\ wf' = [wf EXCEPT !.conversation_count = @ + Bump(r.conv),
                        !.exec_conv = (r.kind = "conversation" /\ r.conv)]
    /\ hist' = [hist EXCEPT !.phases = Append(@, "execute"),
                            !.appended = @ + Bump(r.conv), !.last = "execute"]
    /\ UNCHANGED <<envVars, libVars, activity, graph_loop, memory_system, runVars, active, current_agent_id, cycle_status,
                   storeVars, raised>>

Auto_execution ==
    \E r \in IntelligentResults(current_agent_id) : Auto_execution_result(r)

\* "importance" of the oracle's JSON answer; the prompt asks for 1-10
OracleImportances == {0, 5, 10, 11}

\* _autonomous_reflection: when the oracle asks for a reflection, a memory
\* of the importance the oracle gave (5 when it gave none); Memory(...)
\* raises ValidationError outside 1..10
Auto_reflection ==
    /\ driver = "autonomous" /\ pc = "graph" /\ cycle_status = "running" /\ phase = "execute"
    /\ phase' = "reflect"
    /\ \/ /\ UNCHANGED <<agentVars, cycle_status, pc>>
          /\ hist' = [hist EXCEPT !.phases = Append(@, "reflect"), !.last = "reflect"]
       \/ /\ ~oracle_down
          /\ \E i \in OracleImportances :
               IF ValidImportance(i)
               THEN /\ MayAddMemories(<<i>>)
                    /\ long_term_memories' =
                          [long_term_memories EXCEPT ![current_agent_id] =
                              add_memory(@, i, clock + 1)]
                    /\ clock' = clock + 1
                    /\ UNCHANGED <<cycle_status, pc>>
                    /\ hist' = [hist EXCEPT !.phases = Append(@, "reflect"),
                                            !.last = "reflect"]
               ELSE /\ cycle_status' = "aborted"
                    /\ pc' = "graph_end"
                    /\ UNCHANGED agentVars
                    /\ hist' = [hist EXCEPT !.last = "ValidationError"]
    /\ UNCHANGED <<envVars, libVars, max_ticks, max_conversations, tick, tick_count,
                   conversation_count, active, current_agent_id, wf, storeVars, raised>>

\* a continuation check that asks the oracle before it looks at the caps
_ai_should_continue_oracle_first(w) ==
    IF oracle_down THEN {"continue"} ELSE {"continue", "end"}

\* _ai_should_continue: the cap, the 100 ticks, then the oracle ("end" in
\* its text ends the loop, a failure continues)
_ai_should_continue(w) ==
    IF is_conversation_limit_reached(w.max_conversations, w.conversation_count) THEN {"end"}
    ELSE IF w.tick_count >= GraphTickCap THEN {"end"}
    ELSE IF oracle_down THEN {"continue"}
    ELSE {"continue", "end"}

\* _autonomous_continuation and the conditional edge _ai_should_continue
Auto_continuation ==
    /\ driver = "autonomous" /\ pc = "graph" /\ cycle_status = "running" /\ phase = "reflect"
    /\ phase' = "done"
    /\ cycle_status' = "done"
    /\ wf' = [wf EXCEPT !.tick_count = @ + 1]
    /\ \E d \in _ai_should_continue(wf') :
         IF d = "end"
         THEN /\ pc' = "graph_end"
              /\ hist' = [hist EXCEPT !.phases = Append(@, "done"), !.last = "end"]
         ELSE /\ hist.graph_cycles < MaxCycles
              /\ pc' = "graph"
              /\ hist' = [hist EXCEPT !.phases = Append(@, "done"), !.last = "continue"]
    /\ UNCHANGED <<envVars, libVars, max_ticks, max_conversations, tick, tick_count,
                   conversation_count, active, current_agent_id, storeVars, agentVars,
                   raised>>

\* run_single_cycle returns (the graph's state, or through its except clause
\* the state it was called with); then _process_autonomous_conversations
Auto_run_single_cycle_return ==
    /\ driver = "autonomous" /\ pc = "graph_end"
    /\ LET out == IF cycle_status = "aborted"
                  THEN run_single_cycle_except(wf)
                  ELSE [raised |-> FALSE, wf |-> wf]
       IN /\ raised' = out.raised
          /\ wf' = out.wf
          /\ IF out.raised
             THEN /\ pc' = "finished"
                  /\ UNCHANGED <<tick, conversations_table>>
             ELSE /\ pc' = "loop"
                  /\ tick' = tick + 1
                  /\ conversations_table' =
                        IF out.wf.exec_conv
                        THEN memory_system_add_conversation(conversations_table, FALSE)
                        ELSE conversations_table
    /\ hist' = [hist EXCEPT !.last = "tick_done"]
    /\ UNCHANGED <<envVars, libVars, max_ticks, max_conversations, tick_count, conversation_count,
                   cycleVars, agents_table, memories_table, plans_table, agentVars>>

AutoNext ==
    \/ Auto_run_autonomous_simulation \/ Auto_loop \/ Auto_agent_selection
    \/ Auto_observation \/ Auto_planning \/ Auto_execution \/ Auto_reflection
    \/ Auto_continuation \/ Auto_run_single_cycle_return

(***************************************************************************)
(* An agent object used directly: add_memory calls on a long memory list   *)
(* (core/agent.py and core/intelligent_agent.py, the same code).           *)
(***************************************************************************)
ImportanceInputs == {0, 1, 5, 10, 11}
HistoryPatterns == {"flat", "cycle", "high_first", "high_last"}
HistoryLengths == {99, 100, 121}

\* importance of the k-th memory of an earlier history
HistoryImportance(p, k) ==
    IF p = "flat" THEN 5
    ELSE IF p = "cycle" THEN ((k - 1) % 10) + 1
    ELSE IF p = "high_first" THEN (IF k <= 20 THEN 9 ELSE 2)
    ELSE (IF k <= 80 THEN 2 ELSE 9)

\* the list after n earlier add_memory calls (n <= 121: at most one eviction,
\* at the 101st call)
HistoryMemory(p, k) == [importance |-> HistoryImportance(p, k), ts |-> k]
History(p, n) ==
    IF n <= MemoryHighWater
    THEN [k \in 1..n |-> HistoryMemory(p, k)]
    ELSE LET first == [k \in 1..(MemoryHighWater + 1) |-> HistoryMemory(p, k)]
             kept == SubSeq(SortByImportanceDesc(first), 1, MemoryKeep)
         IN kept \o [k \in 1..(n - MemoryHighWater - 1) |->
                        HistoryMemory(p, MemoryHighWater + 1 + k)]

\* the first loaded agent has lived through an earlier history
Agent_history ==
    /\ driver = "agent" /\ pc = "init" /\ registered # <<>>
    /\ \E p \in HistoryPatterns, n \in HistoryLengths :
          /\ long_term_memories' = [long_term_memories EXCEPT ![registered[1]] = History(p, n)]
          /\ clock' = n
    /\ pc' = "ready"
    /\ current_agent_id' = registered[1]
    /\ hist' = [HistInit EXCEPT !.agents0 = agents_table, !.last = "history"]
    /\ UNCHANGED <<envVars, libVars, max_ticks, max_conversations, tick, tick_count,
                   conversation_count, active, phase, cycle_status, wf, storeVars, raised>>

\* agent.add_memory(content, memory_type, importance)
Agent_add_memory ==
    /\ driver = "agent" /\ pc = "ready" /\ hist.adds < MaxExtraAdds
    /\ \E i \in ImportanceInputs :
         LET list == long_term_memories[current_agent_id] IN
         IF ~ValidImportance(i)
         THEN /\ UNCHANGED agentVars
              /\ hist' = [hist EXCEPT !.adds = @ + 1, !.req = i, !.last = "ValidationError"]
         ELSE /\ long_term_memories' = [long_term_memories EXCEPT ![current_agent_id] =
                                            add_memory(list, i, clock + 1)]
              /\ clock' = clock + 1
              /\ hist' = [hist EXCEPT
                            !.adds = @ + 1, !.req = i,
                            !.last = IF Len(list) + 1 > MemoryHighWater
                                     THEN "evict" ELSE "append",
                            !.pre = IF Len(list) + 1 > MemoryHighWater
                                    THEN Append(list, [importance |-> i, ts |-> clock + 1])
                                    ELSE <<>>]
    /\ UNCHANGED <<envVars, libVars, activity, graph_loop, memory_system, runVars, cycleVars, wf, storeVars, raised>>

AgentNext == Agent_history \/ Agent_add_memory

(***************************************************************************)
(* The store used directly: MemoryDatabase calls (memory/database.py)      *)
(***************************************************************************)
\* the database file outlives a run: the memories table already holds the
\* rows that earlier runs wrote for the agent (clock keeps their number)
StoreHistoryLengths == {0, 99, 100}
Store_history ==
    /\ driver = "store" /\ pc = "init"
    /\ \E n \in StoreHistoryLengths :
          /\ memories_table' = [rows |-> n, last |-> <<>>]
          /\ clock' = n
    /\ pc' = "ready"
    /\ hist' = [HistInit EXCEPT !.agents0 = agents_table, !.last = "history"]
    /\ UNCHANGED <<envVars, libVars, max_ticks, max_conversations, tick, tick_count,
                   conversation_count, cycleVars, wf, agents_table, conversations_table,
                   plans_table, long_term_memories, raised>>

\* db.add_memory(agent_id, memory_type, content, importance), for one agent_id
Store_add_memory ==
    /\ driver = "store" /\ pc = "ready" /\ memories_table.rows < clock + MaxStoreRows
    /\ \E i \in ImportanceInputs :
          /\ memories_table' = db_add_memory(memories_table, i)
          /\ hist' = [hist EXCEPT !.req = i, !.last = "db_add_memory"]
    /\ UNCHANGED <<envVars, libVars, activity, graph_loop, memory_system, runVars, cycleVars, wf, agents_table, conversations_table,
                   plans_table, agentVars, raised>>

StoreNext == Store_history \/ Store_add_memory

(***************************************************************************)
(* A store object used directly: MemoryDatabase (memory/database.py) or    *)
(* PersistentMemoryStore (core/memory_system.py).  Every method opens its  *)
(* own sqlite3 connection on db_path; foreign keys are declared, and       *)
(* SQLite does not enforce them unless PRAGMA foreign_keys is set.         *)
(***************************************************************************)
StoreIds == {"xiaoli", "zhangjie"}
Absent == "absent"
Null == "NULL"
DbImpls == {"MemoryDatabase", "PersistentMemoryStore"}
\* "file": a path with a directory part; "memory": the path ":memory:"
DbPaths == {"file", "memory"}
DbImportances == {5, 11}
DbPriorities == {5, 11}
DbLimits == {1, 5}

\* the tables a new connection on db_path sees: those init_database made in
\* the file, none in the fresh database every connection on ":memory:" is
TablesExist(d) == d.open /\ d.path = "file"
DbTables(d) == <<d.agents, d.memories, d.conversations, d.plans>>

\* __init__: ensure_database_dir, init_database.  os.makedirs("") raises
\* FileNotFoundError; Path(":memory:").parent is "." and exists
Db_open ==
    /\ driver = "database" /\ db.impl = "none"
    /\ \E impl \in DbImpls, path \in DbPaths :
          db' = [db EXCEPT !.impl = impl, !.path = path,
                           !.open = ~(impl = "MemoryDatabase" /\ path = "memory"),
                           !.last = Some([op |-> "open", ok |-> ~(impl = "MemoryDatabase"
                                                                  /\ path = "memory")])]
    /\ UNCHANGED <<envVars, rel, obs, win, planning, activity, graph_loop, memory_system, runVars, cycleVars, wf, storeVars, agentVars, raised, hist>>

\* INSERT OR REPLACE INTO agents: the row of the same id is deleted first
insert_or_replace_agent(rows, row) ==
    Append(SelectSeq(rows, LAMBDA r : r.id # row.id), row)

\* add_agent(agent_data) / save_agent_profile(profile).  agent_data['id'] and
\* agent_data['name'] raise KeyError when absent; AgentProfile(**data) raises
\* ValidationError without id or name, before the store is called
Db_add_agent ==
    /\ db.open
    /\ \E id \in StoreIds \cup {Absent}, name \in {"name", Absent}, data \in {1, 2} :
         LET row == [id |-> id, name |-> name, data |-> data]
             malformed == id = Absent \/ name = Absent
             outcome == IF malformed
                        THEN (IF db.impl = "MemoryDatabase" THEN "False" ELSE "ValidationError")
                        ELSE IF TablesExist(db) THEN "True" ELSE "False"
         IN db' = [db EXCEPT
                     !.agents = IF outcome = "True" THEN insert_or_replace_agent(@, row) ELSE @,
                     !.last = Some([op |-> "add_agent", input |-> row, outcome |-> outcome,
                                    malformed |-> malformed, before |-> DbTables(db)])]
    /\ UNCHANGED <<envVars, rel, obs, win, planning, activity, graph_loop, memory_system, runVars, cycleVars, wf, storeVars, agentVars, raised, hist>>

\* add_memory(agent_id, memory_type, content, importance) inserts what it is
\* given; save_memory(memory) takes a Memory, whose construction raises
\* ValidationError for an importance outside 1..10
Db_add_memory ==
    /\ db.open /\ db.writes < MaxDbWrites
    /\ \E a \in StoreIds, i \in DbImportances, tick_of_clock \in {0, 1} :
         LET row == [agent_id |-> a, content |-> "c", memory_type |-> "observation",
                     importance |-> i, ts |-> db.now + tick_of_clock]
             malformed == ~ValidImportance(i)
             outcome == IF malformed /\ db.impl = "PersistentMemoryStore" THEN "ValidationError"
                        ELSE IF TablesExist(db) THEN "True" ELSE "False"
         IN db' = [db EXCEPT
                     !.memories = IF outcome = "True" THEN Append(@, row) ELSE @,
                     !.saved = IF outcome = "ValidationError" THEN @ ELSE @ \cup {row},
                     !.now = @ + tick_of_clock, !.writes = @ + 1,
                     !.last = Some([op |-> "add_memory", input |-> row, outcome |-> outcome,
                                    malformed |-> malformed, before |-> DbTables(db)])]
    /\ UNCHANGED <<envVars, rel, obs, win, planning, activity, graph_loop, memory_system, runVars, cycleVars, wf, storeVars, agentVars, raised, hist>>

\* add_conversation(from_agent, message, to_agent) / save_conversation
Db_add_conversation ==
    /\ db.open /\ db.writes < MaxDbWrites
    /\ \E f \in StoreIds, t \in StoreIds \cup {Null}, tick_of_clock \in {0, 1} :
         LET row == [from_agent |-> f, to_agent |-> t, ts |-> db.now + tick_of_clock]
             outcome == IF TablesExist(db) THEN "True" ELSE "False"
         IN /\ f # t
            /\ db' = [db EXCEPT
                     !.conversations = IF outcome = "True" THEN Append(@, row) ELSE @,
                     !.now = @ + tick_of_clock, !.writes = @ + 1,
                     !.last = Some([op |-> "add_conversation", input |-> row,
                                    outcome |-> outcome, malformed |-> FALSE,
                                    before |-> DbTables(db)])]
    /\ UNCHANGED <<envVars, rel, obs, win, planning, activity, graph_loop, memory_system, runVars, cycleVars, wf, storeVars, agentVars, raised, hist>>

\* MemoryDatabase.add_daily_plan(agent_id, planned_action, priority)
Db_add_daily_plan ==
    /\ db.open /\ db.impl = "MemoryDatabase" /\ db.writes < MaxDbWrites
    /\ \E a \in StoreIds, p \in DbPriorities :
         LET row == [agent_id |-> a, priority |-> p]
             outcome == IF TablesExist(db) THEN "True" ELSE "False"
         IN db' = [db EXCEPT
                     !.plans = IF outcome = "True" THEN Append(@, row) ELSE @,
                     !.writes = @ + 1,
                     !.last = Some([op |-> "add_daily_plan", input |-> row,
                                    outcome |-> outcome,
                                    malformed |-> (p < MinImportance \/ p > MaxImportance),
                                    before |-> DbTables(db)])]
    /\ UNCHANGED <<envVars, rel, obs, win, planning, activity, graph_loop, memory_system, runVars, cycleVars, wf, storeVars, agentVars, raised, hist>>

\* ORDER BY timestamp DESC LIMIT ?: every order of the rows that is
\* non-increasing in timestamp (SQLite leaves the order of ties open), cut
\* to the first limit rows
Injections(n) == {f \in [1..n -> 1..n] : \A i, j \in 1..n : f[i] = f[j] => i = j}
order_by_timestamp_desc_limit(rows, limit) ==
    LET n == Len(rows)
        orders == {f \in Injections(n) :
                      \A i, j \in 1..n : i < j => rows[f[i]].ts >= rows[f[j]].ts}
    IN {[k \in 1..Min(limit, n) |-> rows[f[k]]] : f \in orders}

\* WHERE from_agent = ? OR to_agent = ? OR to_agent IS NULL
conversation_where(c, agent_id) ==
    c.from_agent = agent_id \/ c.to_agent = agent_id \/ c.to_agent = Null
\* the same text with ' AND timestamp >= ?' appended: AND binds tighter
\* than OR, so the bound applies to the last alternative only
conversation_where_since(c, agent_id, since) ==
    \/ c.from_agent = agent_id
    \/ c.to_agent = agent_id
    \/ (c.to_agent = Null /\ c.ts >= since)

\* get_conversation_history(agent_id, limit) of MemoryDatabase;
\* get_conversations(agent_id, limit, since) of PersistentMemoryStore.
\* A connection that finds no table raises, and the except returns []
get_conversations(d, agent_id, limit, since) ==
    IF ~TablesExist(d) THEN {<<>>}
    ELSE order_by_timestamp_desc_limit(
            SelectSeq(d.conversations,
                      LAMBDA c : IF since = None THEN conversation_where(c, agent_id)
                                 ELSE conversation_where_since(c, agent_id, since[1])),
            limit)

\* get_recent_memories(agent_id, limit) / get_memories(agent_id, limit)
get_memories(d, agent_id, limit) ==
    IF ~TablesExist(d) THEN {<<>>}
    ELSE order_by_timestamp_desc_limit(
            SelectSeq(d.memories, LAMBDA m : m.agent_id = agent_id), limit)

Db_get_conversations ==
    /\ db.open
    /\ \E a \in StoreIds, limit \in DbLimits, since \in {None, Some(1)} :
         /\ since # None => db.impl = "PersistentMemoryStore"
         /\ \E result \in get_conversations(db, a, limit, since) :
              db' = [db EXCEPT !.last = Some([op |-> "get_conversations", agent_id |-> a,
                                              limit |-> limit, since |-> since,
                                              result |-> result])]
    /\ UNCHANGED <<envVars, rel, obs, win, planning, activity, graph_loop, memory_system, runVars, cycleVars, wf, storeVars, agentVars, raised, hist>>

Db_get_memories ==
    /\ db.open
    /\ \E a \in StoreIds, limit \in DbLimits :
         \E result \in get_memories(db, a, limit) :
              db' = [db EXCEPT !.last = Some([op |-> "get_memories", agent_id |-> a,
                                              limit |-> limit, result |-> result])]
    /\ UNCHANGED <<envVars, rel, obs, win, planning, activity, graph_loop, memory_system, runVars, cycleVars, wf, storeVars, agentVars, raised, hist>>

DbNext ==
    \/ Db_open \/ Db_add_agent \/ Db_add_memory \/ Db_add_conversation
    \/ Db_add_daily_plan \/ Db_get_conversations \/ Db_get_memories

InitDatabase == Init /\ driver = "database"
SpecDatabase == InitDatabase /\ [][DbNext]_vars

(***************************************************************************)
(* get_relevant_memories: MamaVillageAgent / IntelligentMamaVillageAgent   *)
(* on their own list, AgentMemoryManager on the rows of the store.         *)
(* A text is the sequence of its whitespace-separated words.               *)
(***************************************************************************)
Words == {"fever", "Fever", "feverish", "baby", "milk"}
\* str.lower()
Lower(w) == IF w = "Fever" THEN "fever" ELSE w
\* k in w, for lower-case words
IsSubstring(k, w) == k = w \/ (k = "fever" /\ w = "feverish")
\* keyword in content.lower(): a keyword holds no whitespace, so it occurs in
\* the text when it occurs in one of its words
KeywordInContent(k, content) ==
    \E j \in DOMAIN content : IsSubstring(k, Lower(content[j]))

Contents == {<<"fever">>, <<"feverish">>, <<"Fever", "milk">>, <<"baby">>, <<"milk", "baby">>}
Topics == {<<>>, <<"fever">>, <<"Fever">>, <<"milk", "fever">>, <<"baby">>}
Limits == {1, 5}
RelevanceImportances == {3, 8}

\* topic.lower().split()
QueryKeywords(topic) == [i \in DOMAIN topic |-> Lower(topic[i])]

\* list.sort(key=..., reverse=True): stable, Before(x, y) is key(x) > key(y)
StableSortDesc(list, Before(_, _)) ==
    LET n == Len(list)
        pos(i) == 1 + Cardinality({j \in 1..n :
                        \/ Before(list[j], list[i])
                        \/ (j < i /\ ~Before(list[i], list[j]))})
    IN [p \in 1..n |-> list[CHOOSE i \in 1..n : pos(i) = p]]

\* relevant_memories[:limit]
Truncate(list, limit) == SubSeq(list, 1, Min(limit, Len(list)))

\* the agent's long_term_memories after its get_relevant_memories: the
\* matches are collected in a new list and that list is sorted
list_after_inplace_sort(list) ==
    StableSortDesc(list, LAMBDA x, y : x.importance > y.importance
                                       \/ (x.importance = y.importance /\ x.ts > y.ts))
list_after_get_relevant_memories(list) == list

\* MamaVillageAgent.get_relevant_memories(topic, limit)
agent_get_relevant_memories(list, topic, limit) ==
    LET kw == QueryKeywords(topic)
        relevant == SelectSeq(list, LAMBDA m :
                        \E i \in DOMAIN kw : KeywordInContent(kw[i], m.content))
        sorted == StableSortDesc(relevant,
                     LAMBDA x, y : x.importance > y.importance
                                   \/ (x.importance = y.importance /\ x.ts > y.ts))
    IN Truncate(sorted, limit)

\* PersistentMemoryStore.get_memories(agent_id, limit): ORDER BY timestamp
\* DESC LIMIT ?, over rows written in timestamp order
store_get_memories(list, limit) ==
    Truncate([k \in 1..Len(list) |-> list[Len(list) + 1 - k]], limit)

\* AgentMemoryManager.get_relevant_memories(query, limit)
relevance_score(m, kw) ==
    Cardinality({i \in DOMAIN kw : KeywordInContent(kw[i], m.content)})
manager_get_relevant_memories(list, query, limit) ==
    LET kw == QueryKeywords(query)
        all_memories == store_get_memories(list, ManagerWindow)
        relevant == SelectSeq(all_memories, LAMBDA m : relevance_score(m, kw) > 0)
        sorted == StableSortDesc(relevant,
                     LAMBDA x, y : relevance_score(x, kw) > relevance_score(y, kw)
                                   \/ (relevance_score(x, kw) = relevance_score(y, kw)
                                       /\ x.importance > y.importance))
    IN Truncate(sorted, limit)

\* the result of the call before this one, when that call had the same
\* arguments and nothing was written since
EarlierResult(impl, topic, limit) ==
    IF rel.last # None /\ rel.last[1].impl = impl /\ rel.last[1].topic = topic
          /\ rel.last[1].limit = limit
    THEN Some(rel.last[1].result) ELSE None

\* add_memory / save_memory of one more memory, stamped datetime.now()
Rel_add_memory ==
    /\ driver = "memory" /\ Len(rel.list) < MaxQueryMemories
    /\ \E c \in Contents, i \in RelevanceImportances :
          rel' = [list |-> Append(rel.list, [content |-> c, importance |-> i,
                                             ts |-> Len(rel.list) + 1]),
                  last |-> None]
    /\ UNCHANGED <<envVars, db, obs, win, planning, activity, graph_loop, memory_system, runVars, cycleVars, wf, storeVars, agentVars, raised, hist>>

\* agent.get_relevant_memories(topic, limit)
Rel_agent_get_relevant_memories ==
    /\ driver = "memory"
    /\ \E topic \in Topics, limit \in Limits :
          rel' = [list |-> list_after_get_relevant_memories(rel.list),
                  last |-> Some([impl |-> "agent", topic |-> topic, limit |-> limit,
                                 before |-> rel.list,
                                 earlier |-> EarlierResult("agent", topic, limit),
                                 result |-> agent_get_relevant_memories(rel.list, topic, limit)])]
    /\ UNCHANGED <<envVars, db, obs, win, planning, activity, graph_loop, memory_system, runVars, cycleVars, wf, storeVars, agentVars, raised, hist>>

\* memory_manager.get_relevant_memories(query, limit)
Rel_manager_get_relevant_memories ==
    /\ driver = "memory"
    /\ \E topic \in Topics, limit \in Limits :
          rel' = [list |-> rel.list,
                  last |-> Some([impl |-> "manager", topic |-> topic, limit |-> limit,
                                 before |-> rel.list,
                                 earlier |-> EarlierResult("manager", topic, limit),
                                 result |-> manager_get_relevant_memories(rel.list, topic, limit)])]
    /\ UNCHANGED <<envVars, db, obs, win, planning, activity, graph_loop, memory_system, runVars, cycleVars, wf, storeVars, agentVars, raised, hist>>

RelNext ==
    Rel_add_memory \/ Rel_agent_get_relevant_memories \/ Rel_manager_get_relevant_memories

(***************************************************************************)
(* The time context of the observe phase: the hour of datetime.now() is    *)
(* mapped to a description of the time of day.  A description is modelled  *)
(* by its leading word; the variants share the ranges of _get_time_context.*)
(***************************************************************************)
Hours == 0..23
ObserveVariants == {"autonomous_workflow", "workflow", "observer", "run_intelligent"}

\* AutonomousWorkflow._get_natural_time_context(hour)
_get_natural_time_context(hour) ==
    IF 5 <= hour /\ hour < 7 THEN "early_morning"
    ELSE IF 7 <= hour /\ hour < 9 THEN "morning"
    ELSE IF 9 <= hour /\ hour < 11 THEN "forenoon"
    ELSE IF 11 <= hour /\ hour < 13 THEN "near_noon"
    ELSE IF 13 <= hour /\ hour < 15 THEN "afternoon"
    ELSE IF 15 <= hour /\ hour < 17 THEN "afternoon_tea"
    ELSE IF 17 <= hour /\ hour < 19 THEN "evening"
    ELSE IF 19 <= hour /\ hour < 21 THEN "night"
    ELSE IF 21 <= hour /\ hour < 23 THEN "late_night"
    ELSE "deep_night"

\* MamaVillageWorkflow._get_time_context(hour), ObserverNode._get_time_context(hour)
\* and IntelligentMamaVillageSimulation._get_time_context(hour)
_get_time_context(hour) ==
    IF 6 <= hour /\ hour < 9 THEN "morning"
    ELSE IF 9 <= hour /\ hour < 12 THEN "forenoon"
    ELSE IF 12 <= hour /\ hour < 14 THEN "noon"
    ELSE IF 14 <= hour /\ hour < 17 THEN "afternoon"
    ELSE IF 17 <= hour /\ hour < 20 THEN "evening"
    ELSE IF 20 <= hour /\ hour < 22 THEN "night"
    ELSE "deep_night"

time_context_of(variant, hour) ==
    IF variant = "autonomous_workflow" THEN _get_natural_time_context(hour)
    ELSE _get_time_context(hour)

\* current_hour = datetime.now().hour, in the observe phase of a variant
Observe_current_hour ==
    /\ driver = "observe"
    /\ obs.hour = None \/ obs.time_context # None
    /\ \E v \in ObserveVariants, h \in Hours :
          obs' = [variant |-> v, hour |-> Some(h), time_context |-> None]
    /\ UNCHANGED <<envVars, rel, db, win, planning, activity, graph_loop, memory_system, runVars, cycleVars, wf, storeVars, agentVars, raised, hist>>

\* time_context = self._get_time_context(current_hour)
Observe_time_context ==
    /\ driver = "observe"
    /\ obs.hour # None /\ obs.time_context = None
    /\ obs' = [obs EXCEPT !.time_context = Some(time_context_of(obs.variant, obs.hour[1]))]
    /\ UNCHANGED <<envVars, rel, db, win, planning, activity, graph_loop, memory_system, runVars, cycleVars, wf, storeVars, agentVars, raised, hist>>

ObserveNext == Observe_current_hour \/ Observe_time_context
InitObserve == Init /\ driver = "observe"
SpecObserve == InitObserve /\ [][ObserveNext]_vars

(***************************************************************************)
(* recent_conversations of the graph drivers.  Each agent has two windows: *)
(* agent.state.recent_conversations on the agent object (state), and       *)
(* simulation_state.agent_states[id].recent_conversations, the AgentState  *)
(* the observe node stores in the simulation state (sim).  A conversation  *)
(* is its number in the run.                                               *)
(***************************************************************************)
MaxWindowCycles == 2
WindowHighWater == 20
WindowKeep == 15
WindowVariants == {"workflow", "autonomous_workflow"}
WindowAgents == {AgentOrder[1], AgentOrder[3]}
\* conversations the sender made in the earlier cycles of the run
WindowHistoryLengths == {0, 19, 20}

\* SimulationState.add_conversation, the windows: c from from_agent to to_agent
\* (None for a group chat)
SimulationState_add_conversation(sim, from_agent, to_agent, c) ==
    LET sent == IF from_agent \in DOMAIN sim
                THEN [sim EXCEPT ![from_agent] = Append(@, c)] ELSE sim
    IN IF to_agent # None /\ to_agent[1] \in DOMAIN sent
       THEN [sent EXCEPT ![to_agent[1]] = Append(@, c)] ELSE sent

\* MamaVillageWorkflow._process_global_events
_process_global_events(sim) ==
    [x \in DOMAIN sim |->
        IF Len(sim[x]) > WindowHighWater
        THEN SubSeq(sim[x], Len(sim[x]) - WindowKeep + 1, Len(sim[x]))
        ELSE sim[x]]

\* AutonomousWorkflow._process_autonomous_global_events: the windows are not touched
_process_autonomous_global_events(sim) == sim

\* a graph driver whose first agent has made n group-chat conversations so
\* far, one a cycle, and whose other agent has made none
Window_history ==
    /\ driver = "window" /\ win.variant = "none"
    /\ \E v \in WindowVariants, n \in WindowHistoryLengths :
          win' = [variant |-> v,
                  state |-> [x \in WindowAgents |->
                                IF x = AgentOrder[1] THEN [i \in 1..n |-> i] ELSE <<>>],
                  sim |-> [x \in WindowAgents |->
                                IF x = AgentOrder[1] THEN [i \in 1..n |-> i] ELSE <<>>],
                  n |-> n, base |-> n, agent |-> "none"]
    /\ UNCHANGED <<envVars, rel, db, obs, planning, activity, graph_loop, memory_system, runVars, cycleVars, wf, storeVars, agentVars, raised, hist>>

\* one cycle of agent a: the execute node makes no conversation, or
\* generate_conversation appends one to a's own window and
\* _process_action_result hands it to add_conversation; then the results
\* node processes the global events
Window_cycle ==
    /\ driver = "window" /\ win.variant # "none" /\ win.n < win.base + MaxWindowCycles
    /\ \E a \in WindowAgents :
          \/ win' = [win EXCEPT !.agent = a,
                        !.sim = IF win.variant = "workflow"
                                THEN _process_global_events(@)
                                ELSE _process_autonomous_global_events(@)]
          \/ \E to_agent \in {None} \cup {Some(b) : b \in WindowAgents \ {a}} :
                LET c == win.n + 1
                    added == SimulationState_add_conversation(win.sim, a, to_agent, c)
                IN win' = [win EXCEPT !.agent = a, !.n = c,
                              !.state = [@ EXCEPT ![a] = Append(@, c)],
                              !.sim = IF win.variant = "workflow"
                                      THEN _process_global_events(added)
                                      ELSE _process_autonomous_global_events(added)]
    /\ UNCHANGED <<envVars, rel, db, obs, planning, activity, graph_loop, memory_system, runVars, cycleVars, wf, storeVars, agentVars, raised, hist>>

WindowNext == Window_history \/ Window_cycle
InitWindow == Init /\ driver = "window"
SpecWindow == InitWindow /\ [][WindowNext]_vars

(***************************************************************************)
(* The Planning phase: AutonomousWorkflow._autonomous_planning on the       *)
(* agent state's current_plan, and PlannerNode.generate_daily_plan on the   *)
(* daily_plans and memories tables.  A plan is named by its origin and the  *)
(* cycle that made it.                                                      *)
(***************************************************************************)
MaxPlanningCycles == 4
\* the decision call raises, returns text without a JSON object (or with a
\* broken one), or returns a JSON decision
PlanningDecisions == {"fail", "unparseable", "no", "yes"}
\* the generation call raises, returns text without a line of an action, or
\* returns a plan text
PlanGenerations == {"fail", "empty", "text"}

\* _ai_planning_decision(...).get("should_plan", False)
_ai_planning_decision(d) == d = "yes"

\* _ai_generate_plan: the oracle's plan, or Plan(actions=[], context={"fallback": True})
_ai_generate_plan(g, cycle) ==
    IF g = "fail" THEN [origin |-> "fallback", actions |-> FALSE, cycle |-> cycle]
    ELSE [origin |-> "ai", actions |-> (g = "text"), cycle |-> cycle]

\* _autonomous_planning: agent_state.current_plan after the node
_autonomous_planning(current_plan, d, g, cycle) ==
    IF _ai_planning_decision(d) THEN Some(_ai_generate_plan(g, cycle)) ELSE current_plan

Planning_autonomous ==
    /\ driver = "planning" /\ planning.variant \in {"none", "autonomous_workflow"}
    /\ planning.n < MaxPlanningCycles
    /\ \E d \in PlanningDecisions, g \in PlanGenerations :
          /\ ~_ai_planning_decision(d) => g = "fail"
          /\ planning' = [planning EXCEPT
                !.variant = "autonomous_workflow",
                !.n = @ + 1,
                !.current_plan = _autonomous_planning(@, d, g, planning.n + 1),
                !.last = Some(IF _ai_planning_decision(d) THEN <<d, g>> ELSE <<d>>)]
    /\ UNCHANGED <<envVars, rel, db, obs, win, activity, graph_loop, memory_system, runVars, cycleVars, wf, storeVars, agentVars,
                   raised, hist>>

\* PlannerNode.generate_daily_plan: the oracle's plan saved by
\* _save_plan_to_database (a plan row and a memory row per action), or the
\* fallback plan returned unsaved; the caller keeps neither
Planning_generate_daily_plan ==
    /\ driver = "planning" /\ planning.variant \in {"none", "planner"}
    /\ planning.n < MaxPlanningCycles
    /\ \E o \in PlanGenerations, k \in 0..MaxPlanActions :
          /\ k > 0 <=> o = "text"
          /\ planning' = [planning EXCEPT
                !.variant = "planner",
                !.n = @ + 1,
                !.rows = @ + k,
                !.memories = @ + k,
                !.last = Some(<<o>>)]
    /\ UNCHANGED <<envVars, rel, db, obs, win, activity, graph_loop, memory_system, runVars, cycleVars, wf, storeVars, agentVars,
                   raised, hist>>

PlanningNext == Planning_autonomous \/ Planning_generate_daily_plan
InitPlanning == Init /\ driver = "planning"
SpecPlanning == InitPlanning /\ [][PlanningNext]_vars

(***************************************************************************)
(* last_activity of MamaVillageAgent: the execute node (take_initiative_   *)
(* action, then _process_action_result) of one agent a cycle.  Time is a    *)
(* counter that advances at the start of every cycle.                      *)
(***************************************************************************)
MaxActivityCycles == 3
ActivityAgents == {AgentOrder[1], AgentOrder[3]}

\* what the execute node of a cycle does: no initiative; a conversation
\* generated or not; a video; childcare without a concern, or with one and a
\* help conversation generated or not; learning; childcare without children
ExecuteOutcomes ==
    {"none", "conversation", "conversation_failed", "digital_activity",
     "childcare", "childcare_help", "childcare_help_failed", "learning", "no_children"}

\* the outcomes in which generate_conversation reached
\* self.state.last_activity = datetime.now()
SetsLastActivity(o) == o \in {"conversation", "childcare_help"}

Activity_construct ==
    /\ driver = "activity" /\ activity.last_activity = <<>>
    /\ activity' = [activity EXCEPT !.last_activity = [a \in ActivityAgents |-> activity.now],
                          !.last = "construct"]
    /\ UNCHANGED <<envVars, rel, db, obs, win, planning, graph_loop, memory_system, runVars, cycleVars, wf, storeVars,
                   agentVars, raised, hist>>

Activity_execute ==
    /\ driver = "activity" /\ activity.last_activity # <<>> /\ activity.now < MaxActivityCycles
    /\ \E a \in ActivityAgents, o \in ExecuteOutcomes :
          LET start == activity.now + 1
          IN activity' = [now |-> start, cycle_start |-> start, agent |-> a, last |-> o,
                     last_activity |->
                        IF SetsLastActivity(o)
                        THEN [activity.last_activity EXCEPT ![a] = start]
                        ELSE activity.last_activity]
    /\ UNCHANGED <<envVars, rel, db, obs, win, planning, graph_loop, memory_system, runVars, cycleVars, wf, storeVars,
                   agentVars, raised, hist>>

ActivityNext == Activity_construct \/ Activity_execute
InitActivity == Init /\ driver = "activity"
SpecActivity == InitActivity /\ [][ActivityNext]_vars

(***************************************************************************)
(* A second run in the same process: run_simulation and                    *)
(* run_intelligent_simulation called again on the simulation object of a   *)
(* finished run.                                                           *)
(***************************************************************************)
MaxRuns == 2

\* run.py run_simulation, called again: self.conversation_count = 0
Run_run_simulation_again ==
    /\ driver = "run" /\ pc = "finished" /\ ~raised /\ hist.runs < MaxRuns
    /\ max_ticks' \in MaxTicksInputs
    /\ max_conversations' \in MaxConversationsInputs
    /\ conversation_count' = 0
    /\ tick' = 0
    /\ pc' = "loop"
    /\ hist' = [HistInit EXCEPT !.agents0 = agents_table, !.last = "run_simulation",
                                !.runs = hist.runs + 1]
    /\ UNCHANGED <<envVars, libVars, tick_count, cycleVars, wf, storeVars, agentVars, raised>>

\* run_intelligent.py run_intelligent_simulation, called again: only
\* simulation_state.max_conversations is assigned
Int_run_intelligent_simulation_again ==
    /\ driver = "intelligent" /\ pc = "finished" /\ ~raised /\ hist.runs < MaxRuns
    /\ max_ticks' \in MaxTicksInputs
    /\ max_conversations' \in MaxConversationsInputs
    /\ tick' = 0
    /\ pc' = "loop"
    /\ hist' = [HistInit EXCEPT !.agents0 = agents_table,
                                !.last = "run_intelligent_simulation",
                                !.runs = hist.runs + 1]
    /\ UNCHANGED <<envVars, libVars, tick_count, conversation_count, cycleVars, wf, storeVars,
                   agentVars, raised>>

AgainNext == Run_run_simulation_again \/ Int_run_intelligent_simulation_again
RerunNext == RunNext \/ IntNext \/ AgainNext
InitRerun == Init /\ ~oracle_down /\ Len(registered) = 1 /\ driver \in {"run", "intelligent"}
SpecRerun == InitRerun /\ [][RerunNext]_vars

(***************************************************************************)
(* The loop of the autonomous graph inside one invoke(): a cycle ends in    *)
(* _autonomous_continuation and the conditional edge _ai_should_continue.   *)
(* Only the counters of simulation_state are kept.                          *)
(***************************************************************************)
MaxLoopConversations == 1
\* simulation_state.tick_count when invoke() is called: the driver's tick + 1
LoopEntryTicks == {0, 1, 99, 100}
LoopCaps == {None, Some(0), Some(MaxLoopConversations)}

Loop_invoke ==
    /\ driver = "continuation" /\ ~graph_loop.entered
    /\ \E t \in LoopEntryTicks, mc \in LoopCaps :
          graph_loop' = [LoopInit EXCEPT !.entered = TRUE, !.tick_count = t,
                                         !.max_conversations = mc]
    /\ UNCHANGED <<envVars, rel, db, obs, win, planning, activity, memory_system, runVars, cycleVars, wf,
                   storeVars, agentVars, raised, hist>>

\* one cycle: the execution node may add a conversation, then
\* _autonomous_continuation counts the tick and _ai_should_continue decides
Loop_cycle ==
    /\ driver = "continuation" /\ graph_loop.entered
    /\ graph_loop.decision # "end"
    /\ \E conv \in BOOLEAN :
          /\ conv => graph_loop.conversation_count < MaxLoopConversations
          /\ LET w == [graph_loop EXCEPT !.conversation_count = @ + Bump(conv),
                                         !.tick_count = @ + 1,
                                         !.cycles = @ + 1]
             IN \E d \in _ai_should_continue(w) :
                   graph_loop' = [w EXCEPT !.decision = d]
    /\ UNCHANGED <<envVars, rel, db, obs, win, planning, activity, memory_system, runVars, cycleVars, wf,
                   storeVars, agentVars, raised, hist>>

ContinuationNext == Loop_invoke \/ Loop_cycle
InitContinuation == Init /\ registered = <<>> /\ driver = "continuation"
SpecContinuation == InitContinuation /\ [][ContinuationNext]_vars

(***************************************************************************)
(* MemorySystemManager.cleanup_old_data (core/memory_system.py), used      *)
(* alone on a PersistentMemoryStore: the "cleanup" command of run_new.py.  *)
(* Timestamps and the clock are counted in days.                           *)
(***************************************************************************)
MaxCleanupWrites == 3   \* memories and conversations saved before a cleanup
MaxCleanupDay == 1      \* days that pass on a memory system used alone
CleanupImportance == 5  \* DELETE ... AND importance < 5
\* days_to_keep: int(command[1]) of the "cleanup" command
CleanupDays == {-1, 0, 1}
\* Memory.importance values on both sides of the test
CleanupImportances == {4, 5}

\* DELETE FROM conversations WHERE timestamp < ?
delete_old_conversations(rows, cutoff_date) ==
    SelectSeq(rows, LAMBDA c : ~(c.ts < cutoff_date))

\* DELETE FROM memories WHERE timestamp < ? (the importance test left out)
delete_old_memories_any_importance(rows, cutoff_date) ==
    SelectSeq(rows, LAMBDA m : ~(m.ts < cutoff_date))
\* DELETE FROM memories WHERE timestamp < ? AND importance < 5
delete_old_memories(rows, cutoff_date) ==
    SelectSeq(rows, LAMBDA m : ~(m.ts < cutoff_date /\ m.importance < CleanupImportance))

CleanupTables(s) == [agents |-> s.agents, memories |-> s.memories,
                     conversations |-> s.conversations]

\* MemorySystemManager(db_path): PersistentMemoryStore.__init__ creates the
\* tables; on ":memory:" every later connection is a fresh, empty database
MemSys_construct ==
    /\ driver = "cleanup" /\ ~memory_system.open
    /\ \E db_path \in DbPaths :
          memory_system' = [memory_system EXCEPT !.open = TRUE, !.path = db_path,
                                                 !.last = Some([op |-> "construct"])]
    /\ UNCHANGED <<envVars, rel, db, obs, win, planning, activity, graph_loop, runVars, cycleVars, wf, storeVars, agentVars, raised, hist>>

\* register_agent(profile): store.save_agent_profile, INSERT OR REPLACE
MemSys_register_agent ==
    /\ memory_system.open
    /\ \E id \in StoreIds :
          /\ id \notin memory_system.agents
          /\ memory_system' = [memory_system EXCEPT
                 !.agents = IF memory_system.path = "file" THEN @ \cup {id} ELSE @,
                 !.last = Some([op |-> "register_agent"])]
    /\ UNCHANGED <<envVars, rel, db, obs, win, planning, activity, graph_loop, runVars, cycleVars, wf, storeVars, agentVars, raised, hist>>

\* store.save_memory(memory): the row carries memory.timestamp.isoformat()
MemSys_save_memory ==
    /\ memory_system.open /\ memory_system.writes < MaxCleanupWrites
    /\ \E a \in StoreIds, i \in CleanupImportances :
          LET row == [agent_id |-> a, importance |-> i, ts |-> memory_system.now]
          IN memory_system' = [memory_system EXCEPT
                 !.memories = IF memory_system.path = "file" THEN Append(@, row) ELSE @,
                 !.writes = @ + 1,
                 !.last = Some([op |-> "save_memory"])]
    /\ UNCHANGED <<envVars, rel, db, obs, win, planning, activity, graph_loop, runVars, cycleVars, wf, storeVars, agentVars, raised, hist>>

\* add_conversation(conversation): store.save_conversation
MemSys_add_conversation ==
    /\ memory_system.open /\ memory_system.writes < MaxCleanupWrites
    /\ \E f \in StoreIds, t \in StoreIds \cup {Null} :
          LET row == [from_agent |-> f, to_agent |-> t, ts |-> memory_system.now]
          IN /\ f # t
             /\ memory_system' = [memory_system EXCEPT
                 !.conversations = IF memory_system.path = "file" THEN Append(@, row) ELSE @,
                 !.writes = @ + 1,
                 !.last = Some([op |-> "add_conversation"])]
    /\ UNCHANGED <<envVars, rel, db, obs, win, planning, activity, graph_loop, runVars, cycleVars, wf, storeVars, agentVars, raised, hist>>

\* a day passes between two commands
MemSys_day ==
    /\ memory_system.open /\ memory_system.now < MaxCleanupDay
    /\ memory_system' = [memory_system EXCEPT !.now = @ + 1, !.last = Some([op |-> "day"])]
    /\ UNCHANGED <<envVars, rel, db, obs, win, planning, activity, graph_loop, runVars, cycleVars, wf, storeVars, agentVars, raised, hist>>

\* cleanup_old_data(days_to_keep): cutoff_date = now - timedelta(days); both
\* DELETEs run on one connection and are committed together.  On ":memory:"
\* the connection has no tables, the first DELETE raises and the except
\* prints the failure
MemSys_cleanup_old_data ==
    /\ memory_system.open
    /\ \E days_to_keep \in CleanupDays :
          LET cutoff_date == memory_system.now - days_to_keep
              failed == memory_system.path # "file"
          IN memory_system' = [memory_system EXCEPT
                 !.conversations = IF failed THEN @
                                   ELSE delete_old_conversations(@, cutoff_date),
                 !.memories = IF failed THEN @ ELSE delete_old_memories(@, cutoff_date),
                 !.last = Some([op |-> "cleanup_old_data", cutoff_date |-> cutoff_date,
                                failed |-> failed,
                                before |-> CleanupTables(memory_system)])]
    /\ UNCHANGED <<envVars, rel, db, obs, win, planning, activity, graph_loop, runVars, cycleVars, wf, storeVars, agentVars, raised, hist>>

CleanupNext ==
    \/ MemSys_construct \/ MemSys_register_agent \/ MemSys_save_memory
    \/ MemSys_add_conversation \/ MemSys_day \/ MemSys_cleanup_old_data
InitCleanup == Init /\ driver = "cleanup"
SpecCleanup == InitCleanup /\ [][CleanupNext]_vars

Next ==
    \/ RunNext \/ IntNext \/ WfNext \/ AutoNext \/ AgentNext \/ StoreNext \/ RelNext
    \/ DbNext \/ RunInterruptNext \/ CycleErrorNext
    \/ ObserveNext \/ WindowNext \/ PlanningNext \/ ActivityNext \/ AgainNext \/ ContinuationNext \/ CleanupNext

Spec == Init /\ [][Next]_vars

\* the four drivers with every oracle call failing
TickNext == RunNext \/ IntNext \/ WfNext \/ AutoNext
InitOracleDown ==
    Init /\ oracle_down = TRUE /\ driver \in {"run", "intelligent", "workflow", "autonomous"}
SpecOracleDown == InitOracleDown /\ [][TickNext]_vars

\* the drivers whose cycle goes through ExecutorNode or MamaVillageAgent
ExecutorNext == RunNext \/ WfNext
\* (the outcomes of a failing oracle are among those of a working one)
InitExecutor == Init /\ ~oracle_down /\ driver \in {"run", "workflow"}
SpecExecutor == InitExecutor /\ [][ExecutorNext]_vars

\* run.py alone, with the user's interruption
InitInterrupt == Init /\ driver = "run"
SpecInterrupt == InitInterrupt /\ [][InterruptNext]_vars

\* the drivers with their cycles' failures, the oracle answering
FailureNext == RunNext \/ IntNext \/ WfNext \/ CycleErrorNext
InitFailure == Init /\ ~oracle_down /\ driver \in {"run", "intelligent", "workflow"}
SpecFailure == InitFailure /\ [][FailureNext]_vars

\* the autonomous workflow alone
InitAutonomous == Init /\ driver = "autonomous"
SpecAutonomous == InitAutonomous /\ [][AutoNext]_vars

\* an agent object alone
InitAgent == Init /\ driver = "agent"
SpecAgent == InitAgent /\ [][AgentNext]_vars

\* an agent object and the memories table, each used alone
MemoryNext == AgentNext \/ StoreNext
InitMemory == Init /\ driver \in {"agent", "store"}
SpecMemory == InitMemory /\ [][MemoryNext]_vars

\* get_relevant_memories alone
InitRelevant == Init /\ driver = "memory"
SpecRelevant == InitRelevant /\ [][RelNext]_vars

(***************************************************************************)
(* Properties                                                              *)
(***************************************************************************)
Started == pc # "init"
Cap == max_conversations[1]
\* the conversation counter the run's loop is steered by
Counter == IF driver \in GraphDrivers THEN wf.conversation_count ELSE conversation_count
FullCycle == <<"observe", "plan", "execute", "reflect", "done">>
ExecutePhaseStep == hist'.phases = Append(hist.phases, "execute")

\* C1, as claimed: with max_conversations = K (K >= 1) a run never produces
\* more than K conversations, however many agents act in a tick.
C1_Original ==
    (Started /\ max_conversations # None /\ Cap >= 1) => hist.appended <= Cap

\* C2, as claimed: conversation_count equals the number of
\* conversation-creation calls since the last reset, whatever branch of
\* execute created the conversation.
C2_Original == Started => Counter = hist.appended

C4_Original ==
    /\ hist.last # "ValidationError"
    /\ hist.last = "db_add_memory" =>
          memories_table.last =
             <<IF hist.req < MinImportance THEN MinImportance
               ELSE IF hist.req > MaxImportance THEN MaxImportance ELSE hist.req>>

\* ticks in which agent cycles ran: the driver's tick counter, and for the
\* graph drivers the cycles of the graph (each is one tick of the graph state)
Ticks == IF driver \in GraphDrivers THEN hist.graph_cycles ELSE tick_count

\* C5, as claimed: a run with max_ticks = N executes agent cycles in at most N
\* ticks, and no cycle starts while the termination predicate (the
\* conversation cap reached) is true of the state the cycle runs on.
C5_Original ==
    (Started /\ driver \in {"run", "intelligent", "workflow", "autonomous"}) =>
        /\ Ticks <= max_ticks
        /\ (driver \in GraphDrivers /\ cycle_status = "running" /\ phase = "select")
              => ~is_conversation_limit_reached(wf.max_conversations, wf.conversation_count)

\* C6, as claimed: every cycle that has started observing runs to Done; none
\* is abandoned on the way, whatever the oracle returns and whether or not an
\* agent was selected.
C6_Original == ~(cycle_status = "aborted" /\ hist.phases # <<>>)

\* C7, as claimed: phases change only along Observing -> Planning ->
\* Executing -> Reflecting -> Done, and a new cycle (its selection, then
\* Observing) begins only from Done.
ForwardEdges ==
    {<<"idle", "select">>, <<"idle", "observe">>, <<"select", "observe">>,
     <<"observe", "plan">>, <<"plan", "execute">>, <<"execute", "reflect">>,
     <<"reflect", "done">>, <<"done", "select">>, <<"done", "observe">>}
C7_Original == [][phase' # phase => <<phase, phase'>> \in ForwardEdges]_vars

\* C8: while every oracle call fails, no exception escapes a tick to the
\* run loop, no cycle over a loaded agent is abandoned, and the agents table
\* holds the rows it held when the run started.
C8_OracleDownTickCompletes ==
    (oracle_down /\ Started) =>
        /\ ~raised
        /\ registered # <<>> => cycle_status # "aborted"
        /\ agents_table = hist.agents0

\* C8, the case: a tick over two agents has completed with the oracle down
C8_Witness ==
    /\ oracle_down /\ hist.last = "tick_done" /\ driver \in {"run", "intelligent"}
    /\ Len(registered) >= 2 /\ hist.cycles = Len(registered)
    /\ agents_table = Range(registered)

\* C9: after a selection whose oracle call failed or whose text named no
\* loaded agent, the selected agent is the first loaded agent; and whenever an
\* agent is loaded, the selected id is the id of a loaded agent.
C9_SelectionFallsBackToFirst ==
    (driver = "autonomous" /\ phase = "select" /\ cycle_status = "running"
        /\ registered # <<>>) =>
        /\ current_agent_id \in Range(registered)
        /\ hist.sel \in {"fail", "names_none"} => current_agent_id = registered[1]

\* C9, the case: with two agents loaded and the second one selected in the
\* cycle before, the oracle names no loaded agent
C9_Witness ==
    /\ driver = "autonomous" /\ phase = "select" /\ cycle_status = "running"
    /\ Len(registered) >= 2 /\ hist.sel = "names_none"
    /\ current_agent_id = registered[1] /\ hist.graph_cycles >= 2

\* C10: an Executing phase classified as childcare, for an agent without
\* children, writes no memory and no conversation, leaves the conversation
\* counters alone and leaves the cycle running towards Done.
C10_NoChildrenNoOp ==
    [][(ExecutePhaseStep /\ hist'.last = "childcare" /\ ~HasChildren(current_agent_id)) =>
          /\ memories_table' = memories_table
          /\ conversations_table' = conversations_table
          /\ long_term_memories' = long_term_memories
          /\ conversation_count' = conversation_count
          /\ wf'.conversation_count = wf.conversation_count
          /\ hist'.appended = hist.appended
          /\ cycle_status' = "running"]_vars

\* C10, the case: an agent without children has just gone through a
\* childcare execution
C10_Witness ==
    /\ ~HasChildren(current_agent_id) /\ current_agent_id \in Range(registered)
    /\ hist.last = "childcare" /\ phase = "execute" /\ cycle_status = "running"

\* the words of a text, lower-cased
Tokens(text) == {Lower(text[i]) : i \in DOMAIN text}
\* number of tokens a memory's content shares with the topic
Overlap(m, topic) == Cardinality(Tokens(m.content) \cap Tokens(topic))

\* C11, as claimed: the result of get_relevant_memories is the memories
\* sharing a token with the topic, ordered by (overlap, importance, recency)
\* descending and cut to limit; it is empty when nothing matches.
C11_Original ==
    rel.last # None =>
        LET c == rel.last[1]
            matching == SelectSeq(c.before, LAMBDA m : Overlap(m, c.topic) > 0)
            ranked == StableSortDesc(matching, LAMBDA x, y :
                         \/ Overlap(x, c.topic) > Overlap(y, c.topic)
                         \/ /\ Overlap(x, c.topic) = Overlap(y, c.topic)
                            /\ \/ x.importance > y.importance
                               \/ (x.importance = y.importance /\ x.ts > y.ts))
        IN c.result = Truncate(ranked, c.limit)

ConversationOf(c, a) == c.from_agent = a \/ c.to_agent = a \/ c.to_agent = Null
RowsWithId(rows, id) == SelectSeq(rows, LAMBDA r : r.id = id)
RowsWithoutId(rows, id) == SelectSeq(rows, LAMBDA r : r.id # id)
C14_Original ==
    (db.last # None /\ db.last[1].op = "add_agent" /\ ~db.last[1].malformed) =>
        LET q == db.last[1]
        IN /\ RowsWithId(db.agents, q.input.id) = <<q.input>>
           /\ RowsWithoutId(db.agents, q.input.id) = RowsWithoutId(q.before[1], q.input.id)

\* C15: a call with malformed or out-of-range input (an agent without id or
\* name, a memory importance or a plan priority outside 1..10) ends in an
\* error outcome and leaves every table as it was.
C15_Original ==
    (db.last # None /\ db.last[1].op \in {"add_agent", "add_memory", "add_daily_plan"}
                    /\ db.last[1].malformed) =>
        /\ db.last[1].outcome # "True"
        /\ DbTables(db) = db.last[1].before

\* C16: every memory row and every conversation row names registered
\* agents only: agent_id, from_agent, and to_agent unless it is NULL.
RegisteredIds == {db.agents[i].id : i \in DOMAIN db.agents}
C16_Original ==
    /\ \A i \in DOMAIN db.memories : db.memories[i].agent_id \in RegisteredIds
    /\ \A i \in DOMAIN db.conversations :
          /\ db.conversations[i].from_agent \in RegisteredIds
          /\ db.conversations[i].to_agent \in RegisteredIds \cup {Null}

\* C17: a get of an agent's memories with a limit no smaller than the number
\* of saves returns, for every memory saved for that agent before, a memory
\* of the same content, importance and kind.
SameMemory(m, r) ==
    /\ m.content = r.content /\ m.importance = r.importance
    /\ m.memory_type = r.memory_type
C17_Original ==
    (db.last # None /\ db.last[1].op = "get_memories"
                    /\ db.last[1].limit >= db.writes) =>
        \A m \in db.saved :
            m.agent_id = db.last[1].agent_id =>
                \E k \in DOMAIN db.last[1].result : SameMemory(m, db.last[1].result[k])

\* C18: a Reflecting phase that decides to reflect writes exactly one
\* memory, and its importance is between 3 and 9.
C18_Original ==
    [][(driver = "autonomous" /\ phase = "execute" /\ phase' = "reflect"
            /\ long_term_memories' # long_term_memories) =>
          LET old == long_term_memories[current_agent_id]
              new == long_term_memories'[current_agent_id]
          IN /\ Len(new) = Len(old) + 1
             /\ new[Len(new)].importance \in 3..9]_vars

\* C19: an Executing phase whose decision has the action type rest adds no
\* memory, makes no conversation and leaves conversation_count as it was,
\* whatever the decision's should_act flag is.
RestDecisions == {d \in Decisions : d.action_type = "rest"}
C19_Original ==
    [][(~oracle_down /\ \E d \in RestDecisions :
           \E r \in _execute_decided_action(current_agent_id, d) :
              Auto_execution_result(r)) =>
          /\ long_term_memories' = long_term_memories
          /\ hist'.appended = hist.appended
          /\ wf'.conversation_count = wf.conversation_count]_vars

\* C20: a run stopped by an interruption was not inside an agent cycle when
\* it stopped, and every conversation that was created has been counted.
C20_Original ==
    pc = "interrupted" =>
        /\ cycle_status # "interrupted"
        /\ conversation_count = hist.appended

\* C21: a failure inside an agent's cycle does not stop the tick or the run.
\* No exception reaches the run loop; after a failed cycle of run.py or
\* run_intelligent.py the next step starts the cycle of the next agent of the
\* tick, or ends the tick when none is left; after a failed graph invocation
\* the next step is the run loop's next tick.
CycleFailed == driver \in {"run", "intelligent"} /\ hist.last = "Exception"
GraphFailed == driver = "workflow" /\ pc = "graph_end" /\ cycle_status = "aborted"
C21_FailureStopsNothing ==
    [][/\ ~raised'
       /\ CycleFailed =>
             IF active # <<>>
             THEN /\ pc' = "tick" /\ tick' = tick
                  /\ current_agent_id' = Head(active) /\ active' = Tail(active)
             ELSE pc' = "loop" /\ tick' = tick + 1
       /\ GraphFailed => (pc' = "loop" /\ tick' = tick + 1)]_vars

\* C21, the case: the cycle of the first of two agents of a tick has failed
C21_Witness ==
    /\ CycleFailed /\ active # <<>> /\ hist.cycles = 1 /\ pc = "tick"

\* C22: after a memory-append call has returned, the agent holds at most
\* 100 memories, in its long-term memory list and in the memories table.
C22_Original ==
    /\ \A a \in DOMAIN long_term_memories : Len(long_term_memories[a]) <= MemoryHighWater
    /\ driver = "store" => memories_table.rows <= MemoryHighWater

\* C23: in a run of the intelligent driver the conversations table holds one
\* row per MemorySystemManager.add_conversation call, and as many rows as
\* conversation_count says.
C23_Original ==
    driver = "intelligent" =>
        /\ conversations_table = hist.appended
        /\ conversations_table = conversation_count

\* C24: in the drivers that run agent objects, once a cycle is over the
\* memories table holds the memories the agents recorded: as many rows as the
\* agents' long-term memory lists hold records.
C24_Original ==
    (driver \in {"intelligent", "workflow", "autonomous"} /\ hist.cycles > 0) =>
        memories_table.rows = TotalLen(long_term_memories, DOMAIN long_term_memories)

\* the ten ranges of the claimed partition, numbered; the tenth is the rest
ClaimedRange(hour) ==
    IF 5 <= hour /\ hour <= 22 THEN (hour - 5) \div 2 + 1 ELSE 10

\* C25: in every variant of the observe phase the hour gets a time context,
\* and two hours get the same one exactly when they lie in the same of the
\* ten ranges 5-6, 7-8, 9-10, 11-12, 13-14, 15-16, 17-18, 19-20, 21-22, rest.
C25_Original ==
    obs.time_context # None =>
        \A h \in Hours :
            (time_context_of(obs.variant, h) = obs.time_context[1])
                <=> (ClaimedRange(h) = ClaimedRange(obs.hour[1]))

\* C26: within one agent cycle of the run driver and of the workflow graph
\* the conversation counters (and the run driver's conversations table) grow
\* in one step at most, the Executing phase, and by one; the plans table
\* grows in one step at most, the Planning phase, by the rows of one plan.
C26_CycleNetEffect ==
    [][(driver = "run" \/ driver = "workflow") =>
        /\ conversation_count' - conversation_count \in {0, 1}
        /\ wf'.conversation_count - wf.conversation_count \in {0, 1}
        /\ driver = "run" => conversations_table' - conversations_table \in {0, 1}
        /\ (\/ conversation_count' # conversation_count
            \/ wf'.conversation_count # wf.conversation_count
            \/ (driver = "run" /\ conversations_table' # conversations_table))
              => (phase' = "execute" /\ "execute" \notin Range(hist.phases))
        /\ plans_table' # plans_table
              => (phase' = "plan" /\ "plan" \notin Range(hist.phases))]_vars

\* C26, the case: the Executing phase of a cycle has made a conversation
C26_Witness ==
    /\ driver \in {"run", "workflow"} /\ phase = "execute" /\ cycle_status = "running"
    /\ IF driver = "run" THEN conversation_count = 1 /\ conversations_table = 1
       ELSE wf.conversation_count = 1

\* C27: after every completed tick of a graph driver no agent's
\* recent_conversations window holds more than 20 conversations, and a window
\* holds its conversations in the order they were made.
C27_Original ==
    win.variant # "none" =>
        \A x \in WindowAgents :
            /\ Len(win.state[x]) <= WindowHighWater
            /\ Len(win.sim[x]) <= WindowHighWater
            /\ \A i, j \in DOMAIN win.sim[x] : i < j => win.sim[x][i] < win.sim[x][j]

PlanningOracleFailed(last) ==
    last # None /\ \E i \in DOMAIN last[1] : last[1][i] \in {"fail", "unparseable"}

\* C29: a Planning phase in which an oracle call fails, or returns a decision
\* that cannot be parsed, leaves the agent's current plan as it was and
\* stores no plan row and no plan memory.
C29_Original ==
    [][(planning' # planning /\ PlanningOracleFailed(planning'.last)) =>
          /\ planning'.current_plan = planning.current_plan
          /\ planning'.rows = planning.rows
          /\ planning'.memories = planning.memories]_vars

\* C30: where a tick of a driver that asks no oracle for the agents is about
\* to select, the state fixes the selection: the run driver's tick can pick
\* one list of agents only, the workflow graph's selection one agent only.
C30_Original ==
    /\ (driver = "run" /\ pc = "loop" /\ tick < max_ticks
          /\ ~run_limit_reached(max_conversations, conversation_count))
         => Cardinality(_run_tick_selections) = 1
    /\ (driver = "workflow" /\ pc = "graph" /\ cycle_status # "running"
          /\ registered # <<>>)
         => Cardinality(_select_agent_choices) = 1


\* the outcomes of a cycle in which the agent performed an action
PerformedAction(o) ==
    o \in {"conversation", "digital_activity", "childcare", "childcare_help",
           "childcare_help_failed", "learning"}

\* C31: after a cycle in which the agent performed an action (conversation,
\* digital activity, childcare, learning) its last_activity is no earlier
\* than the start of that cycle.
C31_Original ==
    PerformedAction(activity.last) => activity.last_activity[activity.agent] >= activity.cycle_start

\* C32: every run of a driver starts with conversation_count = 0, a second
\* run in the same process included.
C32_Original ==
    (driver \in {"run", "intelligent"} /\ pc = "loop" /\ tick = 0) => conversation_count = 0

\* C33: when a run of the run driver or of the intelligent driver has
\* stopped, by the tick cap or by the conversation cap, tick_count is the
\* number of ticks in which agent cycles were run.
C33_Original ==
    (driver \in {"run", "intelligent"} /\ pc = "finished" /\ ~raised) => tick_count = tick

\* the hard caps of the continuation check hold of the loop's counters
LoopCapped(w) ==
    \/ is_conversation_limit_reached(w.max_conversations, w.conversation_count)
    \/ w.tick_count >= GraphTickCap

\* C34: in the autonomous graph's loop the caps dominate the oracle: with the
\* conversation cap reached or tick_count >= 100 the check can only answer
\* "end"; otherwise a failing oracle gives "continue"; and no invocation
\* runs more than 100 cycles, whatever the oracle answers.
C34_CapsDominateOracle ==
    graph_loop.entered =>
        /\ LoopCapped(graph_loop) => _ai_should_continue(graph_loop) = {"end"}
        /\ (graph_loop.cycles > 0 /\ LoopCapped(graph_loop)) => graph_loop.decision = "end"
        /\ (oracle_down /\ ~LoopCapped(graph_loop)) =>
              /\ _ai_should_continue(graph_loop) = {"continue"}
              /\ graph_loop.cycles > 0 => graph_loop.decision = "continue"
        /\ graph_loop.cycles <= GraphTickCap

\* C34, the case: the oracle answered "continue" for 99 cycles and the
\* hundredth cycle ended the loop at tick_count = 100
C34_Witness ==
    /\ ~oracle_down /\ graph_loop.cycles = GraphTickCap
    /\ graph_loop.tick_count = GraphTickCap /\ graph_loop.decision = "end"
    /\ ~is_conversation_limit_reached(graph_loop.max_conversations,
                                      graph_loop.conversation_count)

\* C35: in a run with max_conversations = 0 no agent cycle starts and no
\* conversation is made, whichever driver runs it.
C35_Original ==
    (Started /\ max_conversations = Some(0)
        /\ driver \in {"run", "intelligent", "workflow", "autonomous"}) =>
        /\ hist.cycles = 0
        /\ hist.graph_cycles = 0
        /\ hist.appended = 0

\* C36: when get_conversations is called with an agent id and a since
\* bound, every conversation it returns has a timestamp at or after since,
\* whether the agent is its sender, its recipient, or it is a broadcast.
C36_Original ==
    (db.last # None /\ db.last[1].op = "get_conversations" /\ db.last[1].since # None) =>
        \A k \in DOMAIN db.last[1].result :
            db.last[1].result[k].ts >= db.last[1].since[1]

\* C37: cleanup_old_data(days_to_keep) removes only conversations older
\* than the cutoff and memories that are both older than the cutoff and of
\* importance below 5: every memory of importance 5 or more, every memory
\* and conversation at or after the cutoff, and every agent row are left
\* as they were, in their order, and no row is added.
CleanupRan == memory_system.last # None /\ memory_system.last[1].op = "cleanup_old_data"
C37_CleanupFrame ==
    CleanupRan =>
        LET before == memory_system.last[1].before
            cutoff_date == memory_system.last[1].cutoff_date
        IN /\ memory_system.agents = before.agents
           /\ memory_system.conversations =
                 SelectSeq(before.conversations, LAMBDA c : c.ts >= cutoff_date)
           /\ memory_system.memories =
                 SelectSeq(before.memories,
                           LAMBDA m : m.importance >= CleanupImportance \/ m.ts >= cutoff_date)
\* a cleanup that deleted an old conversation and an old memory of low
\* importance and met an old memory of importance 5 and an agent row
C37_Witness ==
    /\ CleanupRan
    /\ memory_system.agents # {}
    /\ LET before == memory_system.last[1].before
           cutoff_date == memory_system.last[1].cutoff_date
       IN /\ Len(memory_system.conversations) < Len(before.conversations)
          /\ Len(memory_system.memories) < Len(before.memories)
          /\ \E k \in DOMAIN before.memories :
                /\ before.memories[k].ts < cutoff_date
                /\ before.memories[k].importance >= CleanupImportance
=============================================================================
